---- MODULE Spec2Model ----
(***************************************************************************)
(* A model of the HybridRAG retrieval engine of mynotebooklm:               *)
(* VectorStore, BM25Store, GraphStore, Reranker, HybridRetriever and        *)
(* RAGService (src/backend/app/services).                                   *)
(*                                                                          *)
(* Texts are sequences of one-character strings.  Floating-point scores are *)
(* modelled by exact integers: an RRF score is kept multiplied by RRFScale, *)
(* a cosine is compared through its square, a BM25 score is kept in         *)
(* fixed point (see BM25Okapi below).                                       *)
(***************************************************************************)
EXTENDS Integers, Sequences, FiniteSets, TLC

(***************************************************************************)
(* Bounds of the model.                                                     *)
(***************************************************************************)
\* the largest top_k a caller passes to retrieve, query or rerank
MaxTopK == 2

\* the most items of the "entities" list and of the "relations" list of an
\* answer of the chat model
MaxItems == 2
\* the most chunks of a document stored in the vector store alone
MaxChunks == 2

(***************************************************************************)
(* Program constants.                                                       *)
(***************************************************************************)
\* settings.rrf_k
rrf_k == 60
\* settings.top_k
top_k_default == 3
\* settings.graph_k_hop
graph_k_hop == 2
\* notebook_id[:8]
CollectionPrefixLen == 8
\* text[:100] in the merge key
KeyPrefixLen == 100
\* batch_size in RAGService._process_entities
batch_size == 3
\* texts[:10] in RAGService._process_entities
GraphChunkLimit == 10
\* collect(DISTINCT c.text)[0..3]
GraphContextLimit == 3
\* settings.use_hybrid_rag, use_graph_search, use_bm25_search, use_reranker
settings_use_hybrid_rag == TRUE
settings_use_graph_search == TRUE
settings_use_bm25_search == TRUE
settings_use_reranker == TRUE
\* text[:1000] in GraphStore.add_entities
GraphChunkTextLimit == 1000
\* len(text.strip()) < 50 in EntityExtractor.extract
MinExtractLen == 50

(***************************************************************************)
(* Generic helpers.                                                         *)
(***************************************************************************)
Min(a, b) == IF a < b THEN a ELSE b
Max(a, b) == IF a > b THEN a ELSE b

Range(s) == {s[i] : i \in 1..Len(s)}

\* s[:n]
Take(s, n) == SubSeq(s, 1, Min(n, Len(s)))

\* s[n:] (0-based n)
Drop(s, n) == SubSeq(s, Min(n, Len(s)) + 1, Len(s))

\* [x for x in s if Test(x)]
FilterSeq(s, Test(_)) ==
    LET F[i \in 0..Len(s)] ==
            IF i = 0 THEN <<>>
            ELSE IF Test(s[i]) THEN Append(F[i - 1], s[i]) ELSE F[i - 1]
    IN  F[Len(s)]

\* x is put before the first element y of the sorted s with Before(x, y)
InsertSorted(s, x, Before(_, _)) ==
    LET later == {i \in 1..Len(s) : Before(x, s[i])}
        p == IF later = {} THEN Len(s) + 1
             ELSE CHOOSE i \in later : \A j \in later : i <= j
    IN  SubSeq(s, 1, p - 1) \o <<x>> \o SubSeq(s, p, Len(s))

\* Python's stable list.sort: elements that compare equal keep their order
StableSort(s, Before(_, _)) ==
    LET S[i \in 0..Len(s)] ==
            IF i = 0 THEN <<>> ELSE InsertSorted(S[i - 1], s[i], Before)
    IN  S[Len(s)]

RECURSIVE SumSeq(_)
SumSeq(s) == IF s = <<>> THEN 0 ELSE Head(s) + SumSeq(Tail(s))

RECURSIVE Gcd(_, _)
Gcd(a, b) == IF b = 0 THEN a ELSE Gcd(b, a % b)

Lcm(a, b) == (a \div Gcd(a, b)) * b

(***************************************************************************)
(* Characters and strings.                                                  *)
(***************************************************************************)
UpperChars == {"A", "C"}
WordChars == {"A", "C", "a", "b", "c", "d", "e", "f", "x"}
Whitespace == {" ", "\n"}
Punctuation == {".", ",", "!", "?", ";", ":"}
Chars == WordChars \cup Whitespace \cup Punctuation \cup {"'"}

\* str.lower on one character
LowerChar(c) == CASE c = "A" -> "a" [] c = "C" -> "c" [] OTHER -> c

\* str.lower
Lower(s) == [i \in 1..Len(s) |-> LowerChar(s[i])]

\* str.strip, left part
RECURSIVE LStrip(_)
LStrip(s) == IF s # <<>> /\ Head(s) \in Whitespace THEN LStrip(Tail(s)) ELSE s

\* str.strip, right part
RECURSIVE RStrip(_)
RStrip(s) ==
    IF s # <<>> /\ s[Len(s)] \in Whitespace THEN RStrip(SubSeq(s, 1, Len(s) - 1)) ELSE s

\* str.strip
Strip(s) == RStrip(LStrip(s))

\* the maximal runs of characters of s that are in chars, in order
\* (re.findall of a character class, and str.split on white space)
Runs(s, chars) ==
    LET starts == {i \in 1..Len(s) : s[i] \in chars /\ (i = 1 \/ s[i - 1] \notin chars)}
        Start(k) == CHOOSE i \in starts : Cardinality({j \in starts : j <= i}) = k
        End(i) == CHOOSE j \in i..Len(s) :
                      /\ \A x \in i..j : s[x] \in chars
                      /\ (j = Len(s) \/ s[j + 1] \notin chars)
    IN  [k \in 1..Cardinality(starts) |-> SubSeq(s, Start(k), End(Start(k)))]

\* str.split()
Split(s) == Runs(s, Chars \ Whitespace)

\* " ".join(words)
RECURSIVE JoinSpace(_)
JoinSpace(words) ==
    IF words = <<>> THEN <<>>
    ELSE IF Len(words) = 1 THEN words[1]
         ELSE words[1] \o <<" ">> \o JoinSpace(Tail(words))

\* needle in hay (substring test)
Contains(hay, needle) ==
    \E i \in 1..(Len(hay) + 1) :
        /\ i + Len(needle) - 1 <= Len(hay)
        /\ SubSeq(hay, i, i + Len(needle) - 1) = needle

\* dict[k] = v
Put(f, k, v) == [x \in DOMAIN f \cup {k} |-> IF x = k THEN v ELSE f[x]]

\* del dict[k]
Remove(f, k) == [x \in DOMAIN f \ {k} |-> f[x]]

\* the empty dict
EmptyDict == [x \in {} |-> 0]

\* a fraction num/den with den > 0
Frac(n, d) == [num |-> n, den |-> d]
FracLess(a, b) ==
    IF a.den = b.den THEN a.num < b.num ELSE a.num * b.den < b.num * a.den
FracEq(a, b) ==
    IF a.den = b.den THEN a.num = b.num ELSE a.num * b.den = b.num * a.den

(***************************************************************************)
(* The data the model runs on.                                              *)
(***************************************************************************)
\* notebook ids: nbA and nbB differ only after their first 8 characters
nbA == <<"1", "1", "1", "1", "1", "1", "1", "1", "a">>
nbB == <<"1", "1", "1", "1", "1", "1", "1", "1", "b">>
NotebookIds == {nbA, nbB}

DocumentIds == {"d1", "d2"}

\* the Document records (models/document.py): a document is of one notebook
Documents ==
    {[id |-> "d1", notebook_id |-> nbA], [id |-> "d2", notebook_id |-> nbB]}

\* n times the one-letter word " d"
Filler(n) == [i \in 1..(2 * n) |-> IF i % 2 = 1 THEN " " ELSE "d"]

\* chunk texts, as DocumentProcessor._chunk_text joins them: T1 and T2 differ
\* in case only, T3 is shorter than 50 characters, T4 has no token of two
\* characters or more
T1 == <<"A", "b", "c">> \o Filler(24)
T2 == <<"a", "b", "c">> \o Filler(24)
T3 == <<"C", "d">>
T4 == <<"d">> \o Filler(25)
\* T5 and T6 are longer than 100 characters; their first 100 characters are
\* the same up to case and end in a space
T5 == <<"A", "b", "c">> \o Filler(49) \o <<"x">>
T6 == <<"a", "b", "c">> \o Filler(48) \o <<" ", "e", "f">>
Texts == {T1, T2, T3, T4, T5, T6}

\* the chunk lists DocumentProcessor.process_file may return for a file
FileChunks == {<<>>, <<T1>>, <<T4>>}

\* the chunks of the file the retrieval specifications have indexed
IndexedFile == <<T1, T3, T4>>

\* the chunks of a file with long chunks
LongFile == <<T5, T6, T3>>

\* queries
Q1 == <<"A", "b", "c", "?">>
Q2 == <<"a", "b", "c", " ", "c", "d">>
Q3 == <<"c", "d">>
Queries == {Q1, Q2, Q3}

TopKs == 1..MaxTopK

(***************************************************************************)
(* EmbeddingService (embeddings.py).  The embedding model is an external    *)
(* collaborator: a fixed map from text to vectors of integral norm, so that *)
(* cosines are exact fractions.                                             *)
(***************************************************************************)
EmbeddingModel(text) ==
    CASE text = T1 -> <<3, 4>>
      [] text = T2 -> <<4, 3>>
      [] text = T3 -> <<0, 1>>
      [] text = T4 -> <<0, 0>>
      [] text = T5 -> <<3, 4>>
      [] text = T6 -> <<4, 3>>
      [] text = Q1 -> <<3, 4>>
      [] text = Q2 -> <<1, 0>>
      [] text = Q3 -> <<3, 4>>
      [] OTHER     -> <<0, 0>>

\* EmbeddingService.encode
encode(texts) == [i \in 1..Len(texts) |-> EmbeddingModel(texts[i])]

\* EmbeddingService.encode_single
encode_single(text) ==
    LET embeddings == encode(<<text>>)
    IN  IF embeddings # <<>> THEN embeddings[1] ELSE <<>>

(***************************************************************************)
(* VectorStore (vector_store.py).  A store value vs is                      *)
(* [collections |-> self.collections, files |-> the *.json files on disk].  *)
(***************************************************************************)
VS_get_collection_name(notebook_id) == <<"nb_", Take(notebook_id, CollectionPrefixLen)>>

Dot(v1, v2) == SumSeq([i \in 1..Min(Len(v1), Len(v2)) |-> v1[i] * v2[i]])

\* math.sqrt of a perfect square
Sqrt(n) == CHOOSE r \in 0..n : r * r = n

Norm(v) == Sqrt(Dot(v, v))

\* the cosine with the division by norm2 left out
VS_cosine_half_normalized(vec1, vec2) ==
    IF Norm(vec1) = 0 \/ Norm(vec2) = 0 THEN Frac(0, 1)
    ELSE Frac(Dot(vec1, vec2), Norm(vec1))

\* VectorStore._cosine_similarity, as a fraction
VS_cosine_similarity(vec1, vec2) ==
    LET dot_product == Dot(vec1, vec2)
        norm1 == Norm(vec1)
        norm2 == Norm(vec2)
    IN  IF norm1 = 0 \/ norm2 = 0 THEN Frac(0, 1)
        ELSE Frac(dot_product, norm1 * norm2)

VS_new_collection(notebook_id) ==
    [ids |-> <<>>, embeddings |-> <<>>, documents |-> <<>>, metadatas |-> <<>>,
     notebook_id |-> notebook_id]

\* VectorStore._save_collection
VS_save_collection(vs, name) ==
    [vs EXCEPT !.files = Put(vs.files, name, vs.collections[name])]

\* VectorStore.get_or_create_collection: the store afterwards
VS_get_or_create_collection(vs, notebook_id) ==
    LET name == VS_get_collection_name(notebook_id)
    IN  IF name \notin DOMAIN vs.collections
        THEN VS_save_collection(
                 [vs EXCEPT !.collections =
                      Put(vs.collections, name, VS_new_collection(notebook_id))],
                 name)
        ELSE vs

\* add_documents that starts from a collection it read before the other
\* writers wrote: what they stored is not in what it writes back
VS_add_documents_stale(vs0, notebook_id, document_id, texts, embeddings, metadatas) ==
    LET vs == VS_get_or_create_collection(vs0, notebook_id)
        name == VS_get_collection_name(notebook_id)
        c == VS_new_collection(notebook_id)
        n == Min(Len(texts), Min(Len(embeddings), Len(metadatas)))
        added ==
            [c EXCEPT
                !.ids = c.ids \o [i \in 1..n |-> <<document_id, i - 1>>],
                !.embeddings = c.embeddings \o [i \in 1..n |-> embeddings[i]],
                !.documents = c.documents \o [i \in 1..n |-> texts[i]],
                !.metadatas = c.metadatas \o
                    [i \in 1..n |-> [metadatas[i] EXCEPT !.document_id = document_id]]]
    IN  VS_save_collection([vs EXCEPT !.collections[name] = added], name)

\* VectorStore.add_documents: the store afterwards
VS_add_documents(vs0, notebook_id, document_id, texts, embeddings, metadatas) ==
    LET vs == VS_get_or_create_collection(vs0, notebook_id)
        name == VS_get_collection_name(notebook_id)
        c == vs.collections[name]
        n == Min(Len(texts), Min(Len(embeddings), Len(metadatas)))
        added ==
            [c EXCEPT
                !.ids = c.ids \o [i \in 1..n |-> <<document_id, i - 1>>],
                !.embeddings = c.embeddings \o [i \in 1..n |-> embeddings[i]],
                !.documents = c.documents \o [i \in 1..n |-> texts[i]],
                !.metadatas = c.metadatas \o
                    [i \in 1..n |-> [metadatas[i] EXCEPT !.document_id = document_id]]]
    IN  VS_save_collection([vs EXCEPT !.collections[name] = added], name)

\* VectorStore.query: the result, on the store after get_or_create_collection
VS_query_result(vs, notebook_id, query_embedding, top_k) ==
    LET c == vs.collections[VS_get_collection_name(notebook_id)]
        n == Len(c.embeddings)
        \* (i, distance), distance = 1 - sim
        similarities ==
            [i \in 1..n |->
                LET sim == VS_cosine_similarity(query_embedding, c.embeddings[i])
                IN  [i |-> i, distance |-> Frac(sim.den - sim.num, sim.den)]]
        Closer(x, y) == FracLess(x.distance, y.distance)
        top_results == Take(StableSort(similarities, Closer), top_k)
    IN  IF n = 0
        THEN [documents |-> <<>>, metadatas |-> <<>>, distances |-> <<>>]
        ELSE [documents |-> [j \in 1..Len(top_results) |-> c.documents[top_results[j].i]],
              metadatas |-> [j \in 1..Len(top_results) |-> c.metadatas[top_results[j].i]],
              distances |-> [j \in 1..Len(top_results) |-> top_results[j].distance]]

\* VectorStore.query: the store afterwards
VS_query_store(vs, notebook_id) == VS_get_or_create_collection(vs, notebook_id)

\* the positions of a collection's entries that are not of document_id
KeptIndices(metadatas, document_id) ==
    LET idx == [i \in 1..Len(metadatas) |-> i]
        Keep(i) == metadatas[i].document_id # document_id
    IN  FilterSeq(idx, Keep)

\* VectorStore.delete_document: the store afterwards
VS_delete_document(vs0, notebook_id, document_id) ==
    LET vs == VS_get_or_create_collection(vs0, notebook_id)
        name == VS_get_collection_name(notebook_id)
        c == vs.collections[name]
        keep == KeptIndices(c.metadatas, document_id)
        left ==
            [c EXCEPT
                !.ids = [j \in 1..Len(keep) |-> c.ids[keep[j]]],
                !.embeddings = [j \in 1..Len(keep) |-> c.embeddings[keep[j]]],
                !.documents = [j \in 1..Len(keep) |-> c.documents[keep[j]]],
                !.metadatas = [j \in 1..Len(keep) |-> c.metadatas[keep[j]]]]
    IN  VS_save_collection([vs EXCEPT !.collections[name] = left], name)

\* VectorStore.delete_notebook: the store afterwards
VS_delete_notebook(vs, notebook_id) ==
    LET name == VS_get_collection_name(notebook_id)
    IN  IF name \in DOMAIN vs.collections
        THEN [collections |-> Remove(vs.collections, name),
              files |-> Remove(vs.files, name)]
        ELSE vs

\* VectorStore.get_document_count
VS_get_document_count(vs, notebook_id) ==
    LET name == VS_get_collection_name(notebook_id)
    IN  IF name \notin DOMAIN vs.collections THEN 0
        ELSE Len(vs.collections[name].ids)

\* VectorStore.__init__ / _load_all_collections: the store a new process builds
VS_init(files) == [collections |-> files, files |-> files]

(***************************************************************************)
(* rank_bm25.BM25Okapi, the library BM25Store builds its index with         *)
(* (k1 = 1.5, b = 0.75, epsilon = 0.25).  An index is the corpus it was     *)
(* built from; idf values and scores are in thousandths.                    *)
(***************************************************************************)
\* 1000 * ln(x) for the odd x the idf formula needs
LnMilli(x) ==
    CASE x = 1 -> 0 [] x = 3 -> 1099 [] x = 5 -> 1609 [] x = 7 -> 1946
      [] x = 9 -> 2197 [] x = 11 -> 2398 [] x = 13 -> 2565 [] x = 15 -> 2708
      [] x = 17 -> 2833 [] x = 19 -> 2944 [] OTHER -> 3045

Count(doc, word) == Cardinality({i \in 1..Len(doc) : doc[i] = word})

Vocabulary(corpus) == UNION {Range(corpus[i]) : i \in 1..Len(corpus)}

\* nd[word]: the number of documents that hold word
DocFreq(corpus, word) == Cardinality({i \in 1..Len(corpus) : word \in Range(corpus[i])})

\* math.log(corpus_size - freq + 0.5) - math.log(freq + 0.5)
RawIdf(corpus, word) ==
    LnMilli(2 * (Len(corpus) - DocFreq(corpus, word)) + 1)
        - LnMilli(2 * DocFreq(corpus, word) + 1)

SetSum(S, F(_)) ==
    LET ordered == CHOOSE q \in [1..Cardinality(S) -> S] : Range(q) = S
    IN  SumSeq([i \in 1..Cardinality(S) |-> F(ordered[i])])

\* BM25Okapi(corpus) raises ZeroDivisionError when no document holds a token
\* (average_idf = idf_sum / len(self.idf))
BM25Okapi_raises(corpus) == Vocabulary(corpus) = {}

\* BM25Okapi._calc_idf: self.idf[word], a negative idf replaced by
\* epsilon * average_idf
Idf(corpus, word) ==
    LET Raw(w) == RawIdf(corpus, w)
        average_idf == SetSum(Vocabulary(corpus), Raw) \div Cardinality(Vocabulary(corpus))
        eps == average_idf \div 4
    IN  IF word \notin Vocabulary(corpus) THEN 0
        ELSE IF RawIdf(corpus, word) < 0 THEN eps ELSE RawIdf(corpus, word)

\* BM25Okapi.get_scores: the score of document i
\*   idf * tf * (k1 + 1) / (tf + k1 * (1 - b + b * dl / avgdl)), avgdl = total / N
BM25_score(corpus, query_tokens, i) ==
    LET total == SumSeq([j \in 1..Len(corpus) |-> Len(corpus[j])])
        Term(q) ==
            LET tf == Count(corpus[i], q)
            IN  IF tf = 0 THEN 0
                ELSE (Idf(corpus, q) * 20 * tf * total)
                         \div (8 * tf * total + 3 * total + 9 * Len(corpus[i]) * Len(corpus))
    IN  SumSeq([k \in 1..Len(query_tokens) |-> Term(query_tokens[k])])

(***************************************************************************)
(* BM25Store (bm25_store.py).  A store value bs is                          *)
(* [collections |-> self.collections, indexes |-> self._bm25_indexes,       *)
(*  files |-> the *.json files on disk].  An operation that may raise       *)
(* returns [ok |-> it returned, store |-> the store it leaves].             *)
(***************************************************************************)
BM_get_collection_name(notebook_id) ==
    <<"bm25_nb_", Take(notebook_id, CollectionPrefixLen)>>

\* BM25Store._tokenize
BM_tokenize(text) ==
    LET tokens == Runs(Lower(text), WordChars)
        Long(t) == Len(t) > 1
    IN  FilterSeq(tokens, Long)

\* self._bm25_indexes[name] = None
NoIndex == [none |-> TRUE, corpus |-> <<>>]

\* BM25Okapi(tokenized_docs)
BM25Okapi(tokenized_docs) == [none |-> FALSE, corpus |-> tokenized_docs]

BM_new_collection(notebook_id) ==
    [notebook_id |-> notebook_id, documents |-> <<>>, metadatas |-> <<>>,
     tokenized_docs |-> <<>>]

\* BM25Store._save_collection
BM_save_collection(bs, name) ==
    [bs EXCEPT !.files = Put(bs.files, name, bs.collections[name])]

\* BM25Store._rebuild_bm25_index
BM_rebuild_bm25_index(bs, name) ==
    IF name \notin DOMAIN bs.collections \/ bs.collections[name].tokenized_docs = <<>>
    THEN [ok |-> TRUE, store |-> [bs EXCEPT !.indexes = Put(bs.indexes, name, NoIndex)]]
    ELSE IF BM25Okapi_raises(bs.collections[name].tokenized_docs)
         THEN [ok |-> FALSE, store |-> bs]
         ELSE [ok |-> TRUE,
               store |-> [bs EXCEPT !.indexes =
                   Put(bs.indexes, name, BM25Okapi(bs.collections[name].tokenized_docs))]]

\* BM25Store.get_or_create_collection: the store afterwards
BM_get_or_create_collection(bs, notebook_id) ==
    LET name == BM_get_collection_name(notebook_id)
    IN  IF name \notin DOMAIN bs.collections
        THEN BM_save_collection(
                 [bs EXCEPT
                     !.collections = Put(bs.collections, name, BM_new_collection(notebook_id)),
                     !.indexes = Put(bs.indexes, name, NoIndex)],
                 name)
        ELSE bs

\* the rebuild-then-save tail of add_documents and delete_document
BM_rebuild_and_save(bs, name) ==
    LET rebuilt == BM_rebuild_bm25_index(bs, name)
    IN  IF rebuilt.ok
        THEN [ok |-> TRUE, store |-> BM_save_collection(rebuilt.store, name)]
        ELSE rebuilt

\* BM25Store.add_documents
BM_add_documents(bs0, notebook_id, document_id, texts, metadatas) ==
    LET bs == BM_get_or_create_collection(bs0, notebook_id)
        name == BM_get_collection_name(notebook_id)
        c == bs.collections[name]
        n == Min(Len(texts), Len(metadatas))
        added ==
            [c EXCEPT
                !.documents = c.documents \o [i \in 1..n |-> texts[i]],
                !.metadatas = c.metadatas \o
                    [i \in 1..n |-> [metadatas[i] EXCEPT !.document_id = document_id]],
                !.tokenized_docs = c.tokenized_docs \o [i \in 1..n |-> BM_tokenize(texts[i])]]
    IN  BM_rebuild_and_save([bs EXCEPT !.collections[name] = added], name)

\* BM25Store.search: the store afterwards
BM_search_store(bs, notebook_id) == BM_get_or_create_collection(bs, notebook_id)

\* BM25Store.search without "if score > 0": every top result is kept
positive_hits_unfiltered(top_results) == top_results

\* BM25Store.search, "if score > 0": the top results that are kept
positive_hits(top_results) ==
    LET Positive(x) == x.score > 0
    IN  FilterSeq(top_results, Positive)

\* BM25Store.search: [ok |-> it returned, results |-> the BM25SearchResult list],
\* on the store after get_or_create_collection
BM_search_result(bs, notebook_id, query, top_k) ==
    LET name == BM_get_collection_name(notebook_id)
        c == bs.collections[name]
        index == IF name \in DOMAIN bs.indexes THEN bs.indexes[name] ELSE NoIndex
        query_tokens == BM_tokenize(query)
        \* list(enumerate(scores)), each score computed once
        scored_docs ==
            <<>> \o [i \in 1..Len(index.corpus) |->
                        [idx |-> i, score |-> BM25_score(index.corpus, query_tokens, i)]]
        Higher(x, y) == x.score > y.score
        hits == positive_hits(Take(StableSort(scored_docs, Higher), top_k))
    IN  IF index.none \/ c.documents = <<>> THEN [ok |-> TRUE, results |-> <<>>]
        ELSE IF query_tokens = <<>> THEN [ok |-> TRUE, results |-> <<>>]
        ELSE IF \E j \in 1..Len(hits) : hits[j].idx > Len(c.documents)
             \* collection["documents"][idx] raises IndexError
             THEN [ok |-> FALSE, results |-> <<>>]
             ELSE [ok |-> TRUE,
                   results |-> [j \in 1..Len(hits) |->
                       [text |-> c.documents[hits[j].idx],
                        metadata |-> c.metadatas[hits[j].idx],
                        score |-> hits[j].score]]]

\* BM25Store.delete_document
BM_delete_document(bs, notebook_id, document_id) ==
    LET name == BM_get_collection_name(notebook_id)
        c == bs.collections[name]
        keep == KeptIndices(c.metadatas, document_id)
        left ==
            [c EXCEPT
                !.documents = [j \in 1..Len(keep) |-> c.documents[keep[j]]],
                !.metadatas = [j \in 1..Len(keep) |-> c.metadatas[keep[j]]],
                !.tokenized_docs = [j \in 1..Len(keep) |-> c.tokenized_docs[keep[j]]]]
    IN  IF name \notin DOMAIN bs.collections THEN [ok |-> TRUE, store |-> bs]
        ELSE BM_rebuild_and_save([bs EXCEPT !.collections[name] = left], name)

\* BM25Store.delete_notebook: the store afterwards
BM_delete_notebook(bs, notebook_id) ==
    LET name == BM_get_collection_name(notebook_id)
    IN  IF name \in DOMAIN bs.collections
        THEN [collections |-> Remove(bs.collections, name),
              indexes |-> Remove(bs.indexes, name),
              files |-> Remove(bs.files, name)]
        ELSE bs

\* BM25Store.get_statistics; avg_doc_length, rounded to two places, is in
\* hundredths
BM_get_statistics(bs, notebook_id) ==
    LET name == BM_get_collection_name(notebook_id)
        tokenized_docs == bs.collections[name].tokenized_docs
        total_tokens == SumSeq([i \in 1..Len(tokenized_docs) |-> Len(tokenized_docs[i])])
        n == Len(tokenized_docs)
    IN  IF name \notin DOMAIN bs.collections \/ tokenized_docs = <<>>
        THEN [documents |-> 0, avg_doc_length |-> 0, total_tokens |-> 0]
        ELSE [documents |-> n,
              avg_doc_length |-> (200 * total_tokens + n) \div (2 * n),
              total_tokens |-> total_tokens]

\* BM25Store.__init__ / _load_all_collections: the store a new process
\* builds.  A file is written only after its index was built, so the corpus
\* of a file that holds documents holds a token and BM25Okapi does not raise
\* here.
BM_init(files) ==
    [collections |-> files,
     indexes |-> [name \in DOMAIN files |->
                    IF files[name].tokenized_docs = <<>> THEN NoIndex
                    ELSE BM25Okapi(files[name].tokenized_docs)],
     files |-> files]

(***************************************************************************)
(* GraphStore (graph_store.py).  The graph engine holds                     *)
(* db = [entities, relations, chunks], each in creation order; the store    *)
(* holds _connected.  A statement run while the engine is unreachable       *)
(* raises.  A method returns                                                *)
(* [ok |-> it returned, db |-> the graph afterwards, result |-> its value,  *)
(*  contacted |-> it ran a statement on the engine].                        *)
(***************************************************************************)
EmptyGraph == [entities |-> <<>>, relations |-> <<>>, chunks |-> <<>>]

GS_noop(db, result) == [ok |-> TRUE, db |-> db, result |-> result, contacted |-> FALSE]
GS_raise(db) == [ok |-> FALSE, db |-> db, result |-> <<>>, contacted |-> TRUE]
GS_done(db, result) == [ok |-> TRUE, db |-> db, result |-> result, contacted |-> TRUE]

\* list + x unless x is in the list
AddOnce(list, x) == IF x \in Range(list) THEN list ELSE Append(list, x)

\* MERGE (e:Entity {name, notebook_id}) ON CREATE SET ... ON MATCH SET ...
MergeEntity(entities, notebook_id, document_id, entity) ==
    LET Same(i) == entities[i].name = entity.name /\ entities[i].notebook_id = notebook_id
    IN  IF \E i \in 1..Len(entities) : Same(i)
        THEN [i \in 1..Len(entities) |->
                IF Same(i)
                THEN [entities[i] EXCEPT
                         !.document_ids = AddOnce(entities[i].document_ids, document_id)]
                ELSE entities[i]]
        ELSE Append(entities,
                    [name |-> entity.name, notebook_id |-> notebook_id,
                     type |-> entity.type, document_ids |-> <<document_id>>])

RECURSIVE MergeEntities(_, _, _, _)
MergeEntities(entities, notebook_id, document_id, new) ==
    IF new = <<>> THEN entities
    ELSE MergeEntities(MergeEntity(entities, notebook_id, document_id, Head(new)),
                       notebook_id, document_id, Tail(new))

HasEntity(entities, notebook_id, name) ==
    \E i \in 1..Len(entities) :
        entities[i].name = name /\ entities[i].notebook_id = notebook_id

\* MATCH (source) MATCH (target) MERGE (source)-[r:RELATES_TO {type}]->(target)
MergeRelation(db, notebook_id, document_id, relation) ==
    LET rels == db.relations
        Same(i) == /\ rels[i].source = relation.source
                   /\ rels[i].target = relation.target
                   /\ rels[i].type = relation.type
                   /\ rels[i].notebook_id = notebook_id
    IN  IF ~(HasEntity(db.entities, notebook_id, relation.source)
             /\ HasEntity(db.entities, notebook_id, relation.target))
        THEN rels
        ELSE IF \E i \in 1..Len(rels) : Same(i)
             THEN [i \in 1..Len(rels) |->
                     IF Same(i)
                     THEN [rels[i] EXCEPT
                              !.document_ids = AddOnce(rels[i].document_ids, document_id)]
                     ELSE rels[i]]
             ELSE Append(rels,
                         [source |-> relation.source, target |-> relation.target,
                          type |-> relation.type, notebook_id |-> notebook_id,
                          document_ids |-> <<document_id>>])

RECURSIVE MergeRelations(_, _, _, _)
MergeRelations(db, notebook_id, document_id, new) ==
    IF new = <<>> THEN db
    ELSE MergeRelations(
             [db EXCEPT !.relations = MergeRelation(db, notebook_id, document_id, Head(new))],
             notebook_id, document_id, Tail(new))

\* GraphStore.add_entities
GS_add_entities(connected, up, db, notebook_id, document_id, entities, relations, chunk_texts) ==
    LET withEntities ==
            [db EXCEPT !.entities = MergeEntities(db.entities, notebook_id, document_id, entities)]
        withRelations == MergeRelations(withEntities, notebook_id, document_id, relations)
        withChunks ==
            [withRelations EXCEPT !.chunks = withRelations.chunks \o
                [i \in 1..Len(chunk_texts) |->
                    [document_id |-> document_id, notebook_id |-> notebook_id,
                     chunk_index |-> i - 1,
                     text |-> Take(chunk_texts[i], GraphChunkTextLimit)]]]
    IN  IF ~connected THEN GS_noop(db, <<>>)
        ELSE IF ~up THEN GS_raise(db)
        ELSE GS_done(withChunks, <<>>)

\* the type of the entity node named name
EntityType(db, notebook_id, name) ==
    LET i == CHOOSE i \in 1..Len(db.entities) :
                 db.entities[i].name = name /\ db.entities[i].notebook_id = notebook_id
    IN  db.entities[i].type

\* the paths (e)-[:RELATES_TO*1..k]->(), as sequences of relation positions;
\* a path uses a relation once
RECURSIVE PathsFrom(_, _, _, _, _)
PathsFrom(rels, notebook_id, from, k, used) ==
    IF k = 0 THEN {}
    ELSE LET next == {i \in (1..Len(rels)) \ used :
                         rels[i].notebook_id = notebook_id /\ rels[i].source = from}
         IN  UNION {{<<i>>} \cup
                    {<<i>> \o p : p \in PathsFrom(rels, notebook_id, rels[i].target,
                                                  k - 1, used \cup {i})}
                    : i \in next}

\* collect(DISTINCT {name, type, relation, distance}), without the null rows
RelatedByPaths(db, e, k_hop) ==
    {[name |-> db.relations[p[Len(p)]].target,
      type |-> EntityType(db, e.notebook_id, db.relations[p[Len(p)]].target),
      relation |-> db.relations[p[1]].type,
      distance |-> Len(p)]
     : p \in PathsFrom(db.relations, e.notebook_id, e.name, k_hop, {})}

\* collect(DISTINCT {name, type, relation}) over (e)-[r:RELATES_TO]->(related)
RelatedOneHop(db, e) ==
    {[name |-> db.relations[i].target,
      type |-> EntityType(db, e.notebook_id, db.relations[i].target),
      relation |-> db.relations[i].type]
     : i \in {j \in 1..Len(db.relations) :
                 db.relations[j].notebook_id = e.notebook_id
                 /\ db.relations[j].source = e.name}}

\* the list without its repeated elements, first occurrences kept
RECURSIVE Distinct(_)
Distinct(s) ==
    IF s = <<>> THEN <<>>
    ELSE LET front == Distinct(SubSeq(s, 1, Len(s) - 1))
         IN  AddOnce(front, s[Len(s)])

\* collect(DISTINCT c.text)[0..3] joined by " ".join(t for t in ... if t)
ContextText(db, e) ==
    LET OfEntity(c) == c.notebook_id = e.notebook_id /\ c.document_id \in Range(e.document_ids)
        mine == FilterSeq(db.chunks, OfEntity)
        texts == Take(Distinct([i \in 1..Len(mine) |-> mine[i].text]), GraphContextLimit)
        NonEmpty(t) == t # <<>>
    IN  JoinSpace(FilterSeq(texts, NonEmpty))

\* the records one search_by_entities statement yields for entity_name
EntityRows(db, notebook_id, entity_name, k_hop, top_k) ==
    LET Matches(e) == e.notebook_id = notebook_id
                      /\ Contains(Lower(e.name), Lower(entity_name))
        found == Take(FilterSeq(db.entities, Matches), top_k)
    IN  [i \in 1..Len(found) |->
            LET related == RelatedByPaths(db, found[i], k_hop)
            IN  [entity_name |-> found[i].name,
                 entity_type |-> found[i].type,
                 related_entities |-> related,
                 context_text |-> ContextText(db, found[i]),
                 relevance_score |-> Frac(1, 1 + Cardinality(related))]]

RECURSIVE AllEntityRows(_, _, _, _, _)
AllEntityRows(db, notebook_id, query_entities, k_hop, top_k) ==
    IF query_entities = <<>> THEN <<>>
    ELSE EntityRows(db, notebook_id, Head(query_entities), k_hop, top_k)
            \o AllEntityRows(db, notebook_id, Tail(query_entities), k_hop, top_k)

\* GraphStore.search_by_entities
GS_search_by_entities(connected, up, db, notebook_id, query_entities, k_hop, top_k) ==
    LET hops == IF k_hop = 0 THEN graph_k_hop ELSE k_hop
        NamedRow(r) == r.entity_name # <<>>
    IN  IF ~connected THEN GS_noop(db, <<>>)
        ELSE IF query_entities = <<>> THEN GS_noop(db, <<>>)
        ELSE IF ~up THEN GS_raise(db)
        ELSE GS_done(db, Take(FilterSeq(AllEntityRows(db, notebook_id, query_entities,
                                                      hops, top_k), NamedRow), top_k))

\* GraphStore.search_by_query
GS_search_by_query(connected, up, db, notebook_id, query, top_k) ==
    LET LongTerm(t) == Len(Strip(t)) > 2
        words == FilterSeq(Split(query), LongTerm)
        query_terms == [i \in 1..Len(words) |-> Strip(words[i])]
        match_score(e) ==
            Cardinality({i \in 1..Len(query_terms) :
                            Contains(Lower(e.name), Lower(query_terms[i]))})
        Matches(e) == e.notebook_id = notebook_id /\ match_score(e) > 0
        Better(x, y) == match_score(x) > match_score(y)
        found == Take(StableSort(FilterSeq(db.entities, Matches), Better), top_k)
    IN  IF ~connected THEN GS_noop(db, <<>>)
        ELSE IF ~up THEN GS_raise(db)
        ELSE GS_done(db,
                 [i \in 1..Len(found) |->
                     [entity_name |-> found[i].name,
                      entity_type |-> found[i].type,
                      related_entities |-> RelatedOneHop(db, found[i]),
                      context_text |-> ContextText(db, found[i]),
                      relevance_score |->
                          Frac(match_score(found[i]), Max(Len(query_terms), 1))]])

\* GraphStore.get_entity_context: the parts "\n\n".join puts together
GS_get_entity_context(connected, up, db, notebook_id, entity_names) ==
    LET Named(e) == e.notebook_id = notebook_id
                    /\ \E i \in 1..Len(entity_names) : Lower(e.name) = Lower(entity_names[i])
        found == FilterSeq(db.entities, Named)
    IN  IF ~connected \/ entity_names = <<>> THEN GS_noop(db, <<>>)
        ELSE IF ~up THEN GS_raise(db)
        ELSE GS_done(db,
                 [i \in 1..Len(found) |->
                     [name |-> found[i].name, type |-> found[i].type,
                      relations |-> RelatedOneHop(db, found[i])]])

\* GraphStore.delete_document
GS_delete_document(connected, up, db, notebook_id, document_id) ==
    LET NotDoc(id) == id # document_id
        stripped ==
            [i \in 1..Len(db.entities) |->
                IF db.entities[i].notebook_id = notebook_id
                THEN [db.entities[i] EXCEPT
                         !.document_ids = FilterSeq(db.entities[i].document_ids, NotDoc)]
                ELSE db.entities[i]]
        Alive(e) == ~(e.notebook_id = notebook_id /\ e.document_ids = <<>>)
        entities == FilterSeq(stripped, Alive)
        \* DETACH DELETE removes the relations of a deleted entity
        Attached(r) == HasEntity(entities, r.notebook_id, r.source)
                       /\ HasEntity(entities, r.notebook_id, r.target)
        OtherChunk(c) == ~(c.notebook_id = notebook_id /\ c.document_id = document_id)
    IN  IF ~connected THEN GS_noop(db, <<>>)
        ELSE IF ~up THEN GS_raise(db)
        ELSE GS_done([entities |-> entities,
                      relations |-> FilterSeq(db.relations, Attached),
                      chunks |-> FilterSeq(db.chunks, OtherChunk)], <<>>)

\* GraphStore.delete_notebook
GS_delete_notebook(connected, up, db, notebook_id) ==
    LET Other(x) == x.notebook_id # notebook_id
    IN  IF ~connected THEN GS_noop(db, <<>>)
        ELSE IF ~up THEN GS_raise(db)
        ELSE GS_done([entities |-> FilterSeq(db.entities, Other),
                      relations |-> FilterSeq(db.relations, Other),
                      chunks |-> FilterSeq(db.chunks, Other)], <<>>)

\* GraphStore.get_statistics
GS_get_statistics(connected, up, db, notebook_id) ==
    LET Mine(x) == x.notebook_id = notebook_id
    IN  IF ~connected THEN GS_noop(db, [entities |-> 0, relations |-> 0, chunks |-> 0])
        ELSE IF ~up THEN GS_raise(db)
        \* MATCH (e:Entity) yields no row to count chunks on in a notebook
        \* without entities
        ELSE GS_done(db, [entities |-> Len(FilterSeq(db.entities, Mine)),
                          relations |-> Len(FilterSeq(db.relations, Mine)),
                          chunks |-> IF FilterSeq(db.entities, Mine) = <<>> THEN 0
                                     ELSE Len(FilterSeq(db.chunks, Mine))])

(***************************************************************************)
(* EntityExtractor (entity_extractor.py).                                   *)
(***************************************************************************)
\* word.strip('.,!?;:')
RECURSIVE StripPunctuation(_)
StripPunctuation(w) ==
    IF w # <<>> /\ Head(w) \in Punctuation THEN StripPunctuation(Tail(w))
    ELSE IF w # <<>> /\ w[Len(w)] \in Punctuation
         THEN StripPunctuation(SubSeq(w, 1, Len(w) - 1))
         ELSE w

IsCapitalized(w) == w # <<>> /\ w[1] \in UpperChars

\* the number of capitalized words that open the list words
RECURSIVE CapitalRun(_)
CapitalRun(words) ==
    IF words # <<>> /\ IsCapitalized(StripPunctuation(Head(words)))
    THEN 1 + CapitalRun(Tail(words))
    ELSE 0

\* the while loop of extract_entities_from_query: the runs of capitalized words
RECURSIVE CapitalizedEntities(_)
CapitalizedEntities(words) ==
    IF words = <<>> THEN <<>>
    ELSE LET n == CapitalRun(words)
             entity == JoinSpace([i \in 1..n |-> StripPunctuation(words[i])])
         IN  IF n = 0 THEN CapitalizedEntities(Tail(words))
             ELSE (IF Len(entity) > 1 THEN <<entity>> ELSE <<>>)
                      \o CapitalizedEntities(Drop(words, n))

FirstIndex(s, c) ==
    IF c \in Range(s) THEN CHOOSE i \in 1..Len(s) : s[i] = c /\ \A j \in 1..(i - 1) : s[j] # c
    ELSE 0

\* re.findall of quote ([^quote]+) quote
RECURSIVE Quoted(_, _)
Quoted(s, quote) ==
    LET i == FirstIndex(s, quote)
        rest == Drop(s, i)
        j == FirstIndex(rest, quote)
    IN  IF i = 0 \/ j = 0 THEN <<>>
        ELSE IF j = 1 THEN Quoted(rest, quote)
        ELSE <<SubSeq(rest, 1, j - 1)>> \o Quoted(Drop(rest, j), quote)

\* the list without the elements that repeat an earlier one up to case
RECURSIVE DistinctNoCase(_)
DistinctNoCase(s) ==
    IF s = <<>> THEN <<>>
    ELSE LET front == DistinctNoCase(SubSeq(s, 1, Len(s) - 1))
             last == s[Len(s)]
         IN  IF \E i \in 1..Len(front) : Lower(front[i]) = Lower(last) THEN front
             ELSE Append(front, last)

\* EntityExtractor.extract_entities_from_query (double quotes do not occur in
\* the queries of the model)
extract_entities_from_query(query) ==
    DistinctNoCase(CapitalizedEntities(Split(query)) \o Quoted(query, "'"))

\* the entities and relations the chat model may report for a text
E_Abc == [name |-> <<"A", "b", "c">>, type |-> "Organization"]
E_abc == [name |-> <<"a", "b", "c">>, type |-> "Concept"]
E_Cd == [name |-> <<"C", "d">>, type |-> "Location"]
R_Abc_Cd == [source |-> <<"A", "b", "c">>, target |-> <<"C", "d">>, type |-> "LOCATED_IN"]

NoExtraction == [entities |-> <<>>, relations |-> <<>>]

\* what EntityExtractor.extract may return for a text of 50 characters or more:
\* the parsed answer of the chat model, or nothing after an HTTP or parse error
ModelExtractions ==
    {NoExtraction,
     [entities |-> <<E_Abc>>, relations |-> <<>>],
     [entities |-> <<E_abc>>, relations |-> <<>>],
     [entities |-> <<E_Abc, E_Cd>>, relations |-> <<R_Abc_Cd>>]}

\* "\n\n".join(batch)
RECURSIVE JoinParagraphs(_)
JoinParagraphs(texts) ==
    IF texts = <<>> THEN <<>>
    ELSE IF Len(texts) = 1 THEN texts[1]
         ELSE texts[1] \o <<"\n", "\n">> \o JoinParagraphs(Tail(texts))

\* EntityExtractor.extract: the results it may return for text
extract(text) ==
    IF text = <<>> \/ Len(Strip(text)) < MinExtractLen THEN {NoExtraction}
    ELSE ModelExtractions

\* self.entity_types and self.relation_types
entity_types ==
    {"Person", "Organization", "Location", "Concept", "Event", "Product", "Technology"}
relation_types ==
    {"WORKS_FOR", "LOCATED_IN", "RELATED_TO", "MENTIONS", "PART_OF", "CREATED_BY", "USES"}

\* the values of a key of a JSON object of the answer: a string (a name s,
\* or a word w of a vocabulary), a number, or the key is absent
JStr(s) == [t |-> "str", s |-> s, w |-> ""]
JWord(w) == [t |-> "str", s |-> <<>>, w |-> w]
JNum == [t |-> "num", s |-> <<>>, w |-> ""]
JAbsent == [t |-> "absent", s |-> <<>>, w |-> ""]

\* the first loop of _parse_extraction_response, over data.get("entities", []):
\* the entities appended, and whether the loop raised (name.strip() of a
\* name that is no string)
RECURSIVE parse_entities(_)
parse_entities(items) ==
    IF items = <<>> THEN [entities |-> <<>>, raised |-> FALSE]
    ELSE LET front == parse_entities(SubSeq(items, 1, Len(items) - 1))
             entity_data == items[Len(items)]
             entity_type ==
                 IF entity_data.type.t = "str" /\ entity_data.type.w \in entity_types
                 THEN entity_data.type.w ELSE "Concept"
         IN  IF front.raised THEN front
             ELSE IF entity_data.t = "dict" /\ entity_data.name.t # "absent"
                  THEN IF entity_data.name.t # "str"
                       THEN [front EXCEPT !.raised = TRUE]
                       ELSE [front EXCEPT !.entities =
                                Append(@, [name |-> Strip(entity_data.name.s),
                                           type |-> entity_type])]
                  ELSE front

\* the second loop, over data.get("relations", []): the relations appended,
\* and whether the loop raised
RECURSIVE parse_relations(_, _)
parse_relations(items, entity_names) ==
    IF items = <<>> THEN [relations |-> <<>>, raised |-> FALSE]
    ELSE LET front == parse_relations(SubSeq(items, 1, Len(items) - 1), entity_names)
             rel_data == items[Len(items)]
             rel_type ==
                 IF rel_data.type.t = "str" /\ rel_data.type.w \in relation_types
                 THEN rel_data.type.w ELSE "RELATED_TO"
         IN  IF front.raised THEN front
             ELSE IF /\ rel_data.t = "dict"
                     /\ rel_data.source.t # "absent"
                     /\ rel_data.target.t # "absent"
                  THEN IF rel_data.source.t # "str" \/ rel_data.target.t # "str"
                       THEN [front EXCEPT !.raised = TRUE]
                       ELSE IF /\ Lower(Strip(rel_data.source.s)) \in entity_names
                               /\ Lower(Strip(rel_data.target.s)) \in entity_names
                            THEN [front EXCEPT !.relations =
                                     Append(@, [source |-> Strip(rel_data.source.s),
                                                target |-> Strip(rel_data.target.s),
                                                type |-> rel_type])]
                            ELSE front
                  ELSE front

\* EntityExtractor._parse_extraction_response.  content is the answer of the
\* chat model: json says whether re.search finds a {...} block ("none" when
\* not) and whether json.loads reads it ("invalid" when not, "object" when
\* it does); entities and relations are the values of these keys of the
\* object, a list of items, a number, or absent.  Both except clauses fall
\* through to the return of the lists as they are.
parse_extraction_response(content) ==
    LET es == IF content.entities.t = "list" THEN parse_entities(content.entities.items)
              ELSE [entities |-> <<>>, raised |-> content.entities.t # "absent"]
        entity_names == {Lower(es.entities[i].name) : i \in 1..Len(es.entities)}
        rs == IF content.relations.t = "list"
              THEN parse_relations(content.relations.items, entity_names)
              ELSE [relations |-> <<>>, raised |-> content.relations.t # "absent"]
    IN  IF content.json = "none" THEN NoExtraction
        ELSE IF content.json = "invalid" THEN NoExtraction
        ELSE IF es.raised THEN [entities |-> es.entities, relations |-> <<>>]
        ELSE [entities |-> es.entities, relations |-> rs.relations]

\* EntityExtractor.extract on the outcome of the HTTP call: http is "ok",
\* "http_error" (the post or raise_for_status raises httpx.HTTPError) or
\* "bad_body" (response.json() or data["choices"][0]["message"]["content"]
\* raises); every exception of the try block is caught
extract_response(text, response) ==
    IF text = <<>> \/ Len(Strip(text)) < MinExtractLen
    THEN [ok |-> TRUE, called |-> FALSE, value |-> NoExtraction]
    ELSE IF response.http # "ok"
         THEN [ok |-> TRUE, called |-> TRUE, value |-> NoExtraction]
         ELSE [ok |-> TRUE, called |-> TRUE,
               value |-> parse_extraction_response(response.content)]

(***************************************************************************)
(* Reranker (reranker.py).                                                  *)
(***************************************************************************)
\* the RankedResult list of the fallback of Reranker.rerank, before its sort
FallbackResults(documents) ==
    [i \in 1..Len(documents) |->
        [text |-> documents[i].text,
         metadata |-> documents[i].metadata,
         original_score |-> documents[i].score,
         rerank_score |-> documents[i].score,
         source |-> documents[i].source]]

\* the fallback without its sort: the first top_k documents as they came
RerankFallback_unsorted(documents, top_k) == Take(FallbackResults(documents), top_k)

\* the fallback of Reranker.rerank: the documents sorted by their own score
RerankFallback(documents, top_k) ==
    LET Higher(x, y) == FracLess(y.rerank_score, x.rerank_score)
    IN  Take(StableSort(FallbackResults(documents), Higher), top_k)

\* min(scores), max(scores)
MinOf(scores) == CHOOSE x \in Range(scores) : \A y \in Range(scores) : x <= y
MaxOf(scores) == CHOOSE x \in Range(scores) : \A y \in Range(scores) : x >= y

\* the try block of Reranker.rerank, predict having returned scores
RerankScored(documents, scores, top_k) ==
    LET n == Min(Len(documents), Len(scores))
        used == Take(scores, n)
        min_score == MinOf(used)
        max_score == MaxOf(used)
        score_range == IF max_score # min_score THEN max_score - min_score ELSE 1
        results ==
            [i \in 1..n |->
                [text |-> documents[i].text,
                 metadata |-> documents[i].metadata,
                 original_score |-> documents[i].score,
                 rerank_score |-> Frac(scores[i] - min_score, score_range),
                 source |-> documents[i].source]]
        Higher(x, y) == FracLess(y.rerank_score, x.rerank_score)
    IN  Take(StableSort(results, Higher), top_k)

\* Reranker.rerank: available is what is_available returns, use_reranker is
\* settings.use_reranker, predict = [ok |-> predict returned, scores |-> its value]
rerank(available, use_reranker, documents, top_k, predict) ==
    IF documents = <<>> THEN <<>>
    ELSE IF ~available \/ ~use_reranker THEN RerankFallback(documents, top_k)
    ELSE IF predict.ok THEN RerankScored(documents, predict.scores, top_k)
    ELSE RerankFallback(documents, top_k)

\* get_reranker_model without "_reranker_model = False": a failed load
\* leaves _reranker_model None
get_reranker_model_unmarked(model, loadable) ==
    IF model = "None" THEN (IF loadable THEN "loaded" ELSE "None") ELSE model

\* get_reranker_model: the module-level _reranker_model afterwards, loadable
\* telling whether CrossEncoder(...) succeeds
get_reranker_model(model, loadable) ==
    IF model = "None" THEN (IF loadable THEN "loaded" ELSE "False") ELSE model

\* Reranker.is_available: the Reranker [_available] afterwards, its value being
\* the answer; model is _reranker_model after get_reranker_model
is_available(reranker, model) ==
    IF reranker = "None" THEN (IF model = "loaded" THEN "True" ELSE "False")
    ELSE reranker

(***************************************************************************)
(* HybridRetriever (hybrid_retriever.py).                                   *)
(***************************************************************************)
\* the largest rank a hit can have: a source returns at most 2 * top_k hits,
\* and no more than the collection holds
MaxRank == Max(Len(IndexedFile), Max(MaxTopK, top_k_default))

\* the common denominator of the fractions 1 / (rrf_k + rank)
RECURSIVE LcmUpTo(_)
LcmUpTo(r) == IF r = 0 THEN 1 ELSE Lcm(LcmUpTo(r - 1), rrf_k + r)
RRFScale == LcmUpTo(MaxRank)

\* a key that is the text itself
MergeKey_whole(text) == text

\* text[:100].lower().strip()
MergeKey(text) == Strip(Lower(Take(text, KeyPrefixLen)))

\* ",".join(sources)
RECURSIVE JoinComma(_)
JoinComma(sources) ==
    IF sources = <<>> THEN <<>>
    ELSE IF Len(sources) = 1 THEN <<sources[1]>>
         ELSE <<sources[1], ",">> \o JoinComma(Tail(sources))

\* source.split(",")
SplitComma(source) == LET Name(x) == x # "," IN FilterSeq(source, Name)

\* The three searches of HybridRetriever return
\*   [hits, raised |-> an exception was raised inside the try block,
\*    escaped |-> an exception left the method, ...].

\* HybridRetriever._vector_search; encode_ok tells whether the embedding call
\* returns, disk_ok whether a file can be written
vector_search(vs, notebook_id, query, top_k, encode_ok, disk_ok) ==
    LET name == VS_get_collection_name(notebook_id)
        created == VS_get_or_create_collection(vs, notebook_id)
        results == VS_query_result(created, notebook_id, encode_single(query), top_k)
    IN  IF ~encode_ok
        THEN [hits |-> <<>>, raised |-> TRUE, escaped |-> FALSE, store |-> vs]
        ELSE IF name \notin DOMAIN vs.collections /\ ~disk_ok
             \* _save_collection raises inside get_or_create_collection
             THEN [hits |-> <<>>, raised |-> TRUE, escaped |-> FALSE,
                   store |-> [vs EXCEPT !.collections = created.collections]]
             ELSE [raised |-> FALSE, escaped |-> FALSE,
                   hits |->
                      [i \in 1..Len(results.documents) |->
                          [text |-> results.documents[i],
                           metadata |-> results.metadatas[i],
                           score |-> Frac(Max(0, results.distances[i].den
                                                   - results.distances[i].num),
                                          results.distances[i].den),
                           rank |-> i]],
                   store |-> created]

\* HybridRetriever._bm25_search
bm25_search(bs, notebook_id, query, top_k, disk_ok) ==
    LET name == BM_get_collection_name(notebook_id)
        created == BM_get_or_create_collection(bs, notebook_id)
        found == BM_search_result(created, notebook_id, query, top_k)
        results == found.results
        max_score == MaxOf([i \in 1..Len(results) |-> results[i].score])
    IN  IF name \notin DOMAIN bs.collections /\ ~disk_ok
        \* _save_collection raises inside get_or_create_collection
        THEN [hits |-> <<>>, raised |-> TRUE, escaped |-> FALSE,
              store |-> [bs EXCEPT !.collections = created.collections,
                                   !.indexes = created.indexes]]
        ELSE IF ~found.ok
        THEN [hits |-> <<>>, raised |-> TRUE, escaped |-> FALSE, store |-> created]
        ELSE IF results = <<>>
        THEN [hits |-> <<>>, raised |-> FALSE, escaped |-> FALSE, store |-> created]
        ELSE [escaped |-> FALSE,
              hits |->
                 [i \in 1..Len(results) |->
                     [text |-> results[i].text,
                      metadata |-> results[i].metadata,
                      score |-> Frac(results[i].score, IF max_score = 0 THEN 1 ELSE max_score),
                      rank |-> i]],
              raised |-> FALSE,
              store |-> created]

\* HybridRetriever._graph_search: the method result of the graph store, an
\* exception turned into an empty list
graph_search(connected, up, db, notebook_id, query, top_k) ==
    LET query_entities == extract_entities_from_query(query)
        found == IF query_entities # <<>>
                 THEN GS_search_by_entities(connected, up, db, notebook_id,
                                            query_entities, graph_k_hop, top_k)
                 ELSE GS_search_by_query(connected, up, db, notebook_id, query, top_k)
    IN  [hits |-> IF found.ok THEN found.result ELSE <<>>,
         raised |-> ~found.ok,
         escaped |-> FALSE,
         contacted |-> found.contacted]

KeyIndex(all_results, key) ==
    IF \E i \in 1..Len(all_results) : all_results[i].key = key
    THEN CHOOSE i \in 1..Len(all_results) : all_results[i].key = key
    ELSE 0

\* one turn of the loop of HybridRetriever._merge_results; all_results is the
\* dict as the list of its values in insertion order, each with its key
MergeResult(all_results, result, source) ==
    LET key == MergeKey(result.text)
        i == KeyIndex(all_results, key)
    IN  IF i # 0
        THEN [all_results EXCEPT
                 ![i].sources = Append(@, source),
                 ![i].ranks = Put(@, source, result.rank),
                 ![i].scores = Put(@, source, result.score)]
        ELSE Append(all_results,
                    [key |-> key, text |-> result.text, metadata |-> result.metadata,
                     sources |-> <<source>>,
                     ranks |-> Put(EmptyDict, source, result.rank),
                     scores |-> Put(EmptyDict, source, result.score),
                     entities |-> {}])

\* HybridRetriever._merge_results
RECURSIVE merge_results(_, _, _)
merge_results(all_results, new_results, source) ==
    IF new_results = <<>> THEN all_results
    ELSE merge_results(MergeResult(all_results, Head(new_results), source),
                       Tail(new_results), source)

\* one turn of the loop of HybridRetriever._merge_graph_results, i from 0
MergeGraphResult(all_results, result, i) ==
    LET key == MergeKey(result.context_text)
        at == KeyIndex(all_results, key)
    IN  IF result.context_text = <<>> THEN all_results
        ELSE IF at # 0
        THEN [all_results EXCEPT
                 ![at].sources = Append(@, "graph"),
                 ![at].ranks = Put(@, "graph", i + 1),
                 ![at].scores = Put(@, "graph", result.relevance_score),
                 ![at].entities = result.related_entities]
        ELSE Append(all_results,
                    [key |-> key, text |-> result.context_text,
                     metadata |-> [entity |-> result.entity_name,
                                   entity_type |-> result.entity_type],
                     sources |-> <<"graph">>,
                     ranks |-> Put(EmptyDict, "graph", i + 1),
                     scores |-> Put(EmptyDict, "graph", result.relevance_score),
                     entities |-> result.related_entities])

\* HybridRetriever._merge_graph_results
merge_graph_results(all_results, graph_results) ==
    LET M[i \in 0..Len(graph_results)] ==
            IF i = 0 THEN all_results
            ELSE MergeGraphResult(M[i - 1], graph_results[i], i - 1)
    IN  M[Len(graph_results)]

\* rrf_score with "=" in place of "+=": the term of the best rank alone
RRFBestTerm(ranks) ==
    LET terms == {RRFScale \div (rrf_k + ranks[source]) : source \in DOMAIN ranks}
    IN  Frac(CHOOSE t \in terms : \A u \in terms : t >= u, RRFScale)

\* rrf_score = sum of 1.0 / (rrf_k + rank) over result["ranks"]
RRFSum(ranks) ==
    LET Term(source) == RRFScale \div (rrf_k + ranks[source])
    IN  Frac(SetSum(DOMAIN ranks, Term), RRFScale)

\* the loop of HybridRetriever._rrf_fusion: every result gets its rrf_score
RRFScored(all_results) ==
    [i \in 1..Len(all_results) |->
        [key |-> all_results[i].key,
         text |-> all_results[i].text,
         metadata |-> all_results[i].metadata,
         sources |-> all_results[i].sources,
         ranks |-> all_results[i].ranks,
         scores |-> all_results[i].scores,
         entities |-> all_results[i].entities,
         rrf_score |-> RRFSum(all_results[i].ranks)]]

\* _rrf_fusion without its sort: the scored results in insertion order
rrf_fusion_unsorted(all_results) == RRFScored(all_results)

\* HybridRetriever._rrf_fusion
rrf_fusion(all_results) ==
    LET Higher(x, y) == FracLess(y.rrf_score, x.rrf_score)
    IN  StableSort(RRFScored(all_results), Higher)

\* step 3 without the reads of is_connected: the search runs whenever use_graph
\* holds, as on a connected store
graph_step_unguarded(st, notebook_id, query, top_k, use_graph) ==
    IF use_graph
    THEN graph_search(TRUE, st.up, st.db, notebook_id, query, top_k)
    ELSE [hits |-> <<>>, raised |-> FALSE, escaped |-> FALSE, contacted |-> FALSE]

\* step 3 of HybridRetriever.retrieve: the graph search, run when use_graph
\* holds and the graph store is connected
graph_step(st, notebook_id, query, top_k, use_graph) ==
    IF use_graph /\ st.connected
    THEN graph_search(st.connected, st.up, st.db, notebook_id, query, top_k)
    ELSE [hits |-> <<>>, raised |-> FALSE, escaped |-> FALSE, contacted |-> FALSE]

\* the documents retrieve hands to Reranker.rerank
RerankDocuments(fused_results) ==
    [i \in 1..Len(fused_results) |->
        [text |-> fused_results[i].text,
         metadata |-> fused_results[i].metadata,
         score |-> fused_results[i].rrf_score,
         source |-> JoinComma(fused_results[i].sources)]]

\* step 5 with a rerank that lacks its except clause: an exception of
\* model.predict leaves rerank
rerank_step_raising(available, fused_results, top_k, predict) ==
    [ok |-> ~(available /\ settings_use_reranker /\ fused_results # <<>> /\ ~predict.ok),
     value |-> rerank(available, settings_use_reranker, RerankDocuments(fused_results),
                      top_k, predict)]

\* step 5 of HybridRetriever.retrieve: Reranker.rerank on the fused results,
\* [ok |-> it returned, value |-> the RankedResult list]
rerank_step(available, fused_results, top_k, predict) ==
    [ok |-> TRUE,
     value |-> rerank(available, settings_use_reranker, RerankDocuments(fused_results),
                      top_k, predict)]

\* is_available as retrieve reads it, only when there are results and
\* use_reranker holds: [model, reranker] after the read
reranker_probe(st, probed, loadable) ==
    LET loaded == IF probed /\ st.reranker = "None"
                  THEN get_reranker_model(st.model, loadable) ELSE st.model
    IN  [model |-> loaded,
         reranker |-> IF probed THEN is_available(st.reranker, loaded) ELSE st.reranker]

\* the fused results returned whole
fused_uncut(fused_results, top_k) == fused_results

\* fused_results[:top_k] of the return without reranking
fused_cut(fused_results, top_k) == Take(fused_results, top_k)

\* step 5 of HybridRetriever.retrieve and its return, given the three search
\* results, the merged dict, the fused list and the reranker after the read
retrieve_rank(top_k, use_reranker, env, vector, bm25, graph, all_results, fused_results, probe) ==
    LET reranking == rerank_step(probe.reranker = "True", fused_results, top_k, env.predict)
        reranked == reranking.value
        graph_entities ==
            [i \in 1..Len(graph.hits) |->
                [name |-> graph.hits[i].entity_name,
                 type |-> graph.hits[i].entity_type,
                 related |-> graph.hits[i].related_entities]]
        escaped == \/ vector.escaped \/ bm25.escaped \/ graph.escaped
                   \/ (all_results # <<>> /\ use_reranker /\ probe.reranker = "True"
                       /\ ~reranking.ok)
        cut == fused_cut(fused_results, top_k)
        results ==
            IF all_results = <<>> THEN <<>>
            ELSE IF use_reranker /\ probe.reranker = "True"
            THEN [i \in 1..Len(reranked) |->
                     [text |-> reranked[i].text,
                      metadata |-> reranked[i].metadata,
                      score |-> reranked[i].rerank_score,
                      sources |-> SplitComma(reranked[i].source),
                      entities |-> IF "graph" \in Range(reranked[i].source)
                                   THEN graph_entities ELSE <<>>]]
            ELSE [i \in 1..Len(cut) |->
                     [text |-> cut[i].text,
                      metadata |-> cut[i].metadata,
                      score |-> cut[i].rrf_score,
                      sources |-> cut[i].sources,
                      entities |-> IF "graph" \in Range(cut[i].sources)
                                   THEN graph_entities ELSE <<>>]]
    IN  [ok |-> ~escaped,
         results |-> IF escaped THEN <<>> ELSE results,
         vector_hits |-> vector.hits,
         bm25_hits |-> bm25.hits,
         graph_hits |-> graph.hits,
         all_results |-> all_results,
         fused_results |-> IF all_results = <<>> THEN <<>> ELSE fused_results,
         reranked |-> all_results # <<>> /\ use_reranker /\ probe.reranker = "True",
         vector_raised |-> vector.raised,
         bm25_raised |-> bm25.raised,
         graph_raised |-> graph.raised,
         predict_raised |-> all_results # <<>> /\ use_reranker /\ probe.reranker = "True"
                            /\ settings_use_reranker /\ ~env.predict.ok,
         vs |-> vector.store,
         bs |-> bm25.store,
         model |-> probe.model,
         reranker |-> probe.reranker,
         contacted |-> graph.contacted]

\* step 4 of HybridRetriever.retrieve, Reciprocal Rank Fusion of the merged
\* dict, and what follows it
retrieve_fuse(st, top_k, use_reranker, env, vector, bm25, graph, all_results) ==
    retrieve_rank(top_k, use_reranker, env, vector, bm25, graph, all_results,
                  rrf_fusion(all_results),
                  reranker_probe(st, all_results # <<>> /\ use_reranker, env.loadable))

\* the merges of steps 1 to 3 of HybridRetriever.retrieve, in the order
\* vector, bm25, graph, and what follows them
retrieve_merge(st, top_k, use_reranker, env, vector, bm25, graph) ==
    retrieve_fuse(st, top_k, use_reranker, env, vector, bm25, graph,
                  merge_graph_results(
                      merge_results(merge_results(<<>>, vector.hits, "vector"),
                                    bm25.hits, "bm25"),
                      graph.hits))

\* retrieve whose await of _vector_search gives the event loop a turn, in
\* which a delete_document of d1 runs: the BM25 search reads the store after it
retrieve_search_suspended(st, notebook_id, query, top_k, use_vector, use_bm25, use_graph, use_reranker, env) ==
    retrieve_merge(st, top_k, use_reranker, env,
        IF use_vector
        THEN vector_search(st.vs, notebook_id, query, top_k * 2, env.encode_ok, env.disk_ok)
        ELSE [hits |-> <<>>, raised |-> FALSE, escaped |-> FALSE, store |-> st.vs],
        IF use_bm25
        THEN bm25_search(BM_delete_document(st.bs, notebook_id, "d1").store,
                         notebook_id, query, top_k * 2, env.disk_ok)
        ELSE [hits |-> <<>>, raised |-> FALSE, escaped |-> FALSE, store |-> st.bs],
        graph_step(st, notebook_id, query, top_k, use_graph))

\* the searches of steps 1 to 3 of HybridRetriever.retrieve and what follows
\* them, top_k being the value after its default.  _vector_search holds no
\* await of its own, so the await of it runs it to its end without giving the
\* event loop a turn: the three searches read the stores in one state st.
retrieve_search(st, notebook_id, query, top_k, use_vector, use_bm25, use_graph, use_reranker, env) ==
    retrieve_merge(st, top_k, use_reranker, env,
        IF use_vector
        THEN vector_search(st.vs, notebook_id, query, top_k * 2, env.encode_ok, env.disk_ok)
        ELSE [hits |-> <<>>, raised |-> FALSE, escaped |-> FALSE, store |-> st.vs],
        IF use_bm25
        THEN bm25_search(st.bs, notebook_id, query, top_k * 2, env.disk_ok)
        ELSE [hits |-> <<>>, raised |-> FALSE, escaped |-> FALSE, store |-> st.bs],
        graph_step(st, notebook_id, query, top_k, use_graph))

\* HybridRetriever.retrieve.  st = [vs, bs, connected, up, db, model, reranker]
\* is the state of the stores, the graph and the reranker; top_k = 0 stands
\* for None; env = [encode_ok, disk_ok, loadable, predict] is what the
\* collaborators do during the call.  The value holds the results, the
\* intermediate lists and the state the call leaves.
retrieve(st, notebook_id, query, top_k0, use_vector, use_bm25, use_graph, use_reranker, env) ==
    retrieve_search(st, notebook_id, query,
                    IF top_k0 = 0 THEN top_k_default ELSE top_k0,
                    use_vector, use_bm25, use_graph, use_reranker, env)

(***************************************************************************)
(* The state: one server process (RAGService and its stores), the files of  *)
(* the two file-based stores, and the graph engine.                         *)
(***************************************************************************)
VARIABLES
    vs,         \* VectorStore: [collections, files]
    bs,         \* BM25Store: [collections, indexes, files]
    db,         \* the content of the graph engine
    up,         \* the graph engine can be reached
    connected,  \* GraphStore._connected
    model,      \* reranker._reranker_model: "None", "loaded" or "False"
    reranker,   \* Reranker._available: "None", "True" or "False"
    task,       \* the process_document call suspended at await extract(...)
    last,       \* the last call that ended, with what it returned
    probeFailed,\* GraphStore.__init__ of this process found the engine
                \* unreachable
    uploaded,   \* the ids of the documents process_document was called for
    notebook_store, \* NotebookStore: the content of the notebooks file
    deleted     \* the <<notebook, document>> pairs delete_document has
                \* returned for, no data of the document stored since

vars == <<vs, bs, db, up, connected, model, reranker, task, last, probeFailed,
          uploaded, notebook_store, deleted>>

\* _ensure_file: {"notebooks": {}, "documents": {}}
EmptyNotebookStore == [notebooks |-> {}, documents |-> <<>>]

Idle == [pc |-> "idle"]

\* the state retrieve reads
RetrieverState ==
    [vs |-> vs, bs |-> bs, connected |-> connected, up |-> up, db |-> db,
     model |-> model, reranker |-> reranker]

\* what the collaborators do during one call: the embedding model returns,
\* the collection file can be written, CrossEncoder(...) can be built, and
\* what model.predict does
Scores(a, b) == [ok |-> TRUE, scores |-> [i \in 1..(2 * MaxRank) |-> IF i % 2 = 1 THEN a ELSE b]]
PredictRaises == [ok |-> FALSE, scores |-> <<>>]

AllWell == [encode_ok |-> TRUE, disk_ok |-> TRUE, loadable |-> TRUE, predict |-> Scores(-1, 2)]

Envs ==
    {AllWell,
     [AllWell EXCEPT !.predict = Scores(0, 0)],
     [AllWell EXCEPT !.predict = PredictRaises],
     [AllWell EXCEPT !.loadable = FALSE],
     [AllWell EXCEPT !.encode_ok = FALSE],
     [AllWell EXCEPT !.disk_ok = FALSE]}

\* _connect with self._connected = True left standing by the except clause
GS_connect_always(reachable) == TRUE

\* GraphStore._connect: self._connected afterwards
GS_connect(reachable) == reachable

Init ==
    /\ vs = VS_init(EmptyDict)
    /\ bs = BM_init(EmptyDict)
    /\ db = EmptyGraph
    /\ up \in BOOLEAN
    /\ connected = GS_connect(up)
    /\ model = "None"
    /\ reranker = "None"
    /\ task = Idle
    /\ last = [op |-> "init"]
    /\ probeFailed = ~up
    /\ uploaded = {}
    /\ notebook_store = EmptyNotebookStore
    /\ deleted = {}

Ingested(document_id) == {p \in deleted : p[2] # document_id}

(***************************************************************************)
(* RAGService.process_document, up to its first await.                      *)
(***************************************************************************)
\* chunk.metadata of DocumentProcessor._chunk_text
ChunkMetadata(notebook_id, document_id, i) ==
    [document_id |-> document_id, chunk_index |-> i - 1]

ProcessDocument(notebook_id, document_id, texts, encode_ok) ==
    LET metadatas == [i \in 1..Len(texts) |-> ChunkMetadata(notebook_id, document_id, i)]
        vs1 == VS_add_documents(vs, notebook_id, document_id, texts, encode(texts), metadatas)
        added == IF settings_use_bm25_search
                 THEN BM_add_documents(bs, notebook_id, document_id, texts, metadatas)
                 ELSE [ok |-> TRUE, store |-> bs]
        call == [op |-> "process_document", notebook_id |-> notebook_id,
                 document_id |-> document_id]
    IN  /\ task = Idle
        \* a document gets a new id (models/document.py)
        /\ document_id \notin uploaded
        /\ uploaded' = uploaded \cup {document_id}
        /\ UNCHANGED notebook_store
        /\ UNCHANGED <<db, up, connected, model, reranker, probeFailed>>
        /\ IF texts = <<>>
           THEN /\ last' = call @@ [ok |-> TRUE, value |-> 0]
                /\ UNCHANGED <<vs, bs, task, deleted>>
           ELSE IF ~encode_ok
           THEN /\ last' = call @@ [ok |-> FALSE, value |-> "encode"]
                /\ UNCHANGED <<vs, bs, task, deleted>>
           ELSE /\ vs' = vs1
                /\ bs' = added.store
                /\ deleted' = Ingested(document_id)
                /\ IF ~added.ok
                   THEN /\ last' = call @@ [ok |-> FALSE, value |-> "bm25"]
                        /\ task' = task
                   ELSE IF settings_use_graph_search /\ connected
                   THEN /\ task' = [pc |-> "extract", notebook_id |-> notebook_id,
                                    document_id |-> document_id, texts |-> texts,
                                    i |-> 0, all_entities |-> <<>>, all_relations |-> <<>>]
                        /\ last' = call @@ [ok |-> TRUE, value |-> "awaiting"]
                   ELSE /\ last' = call @@ [ok |-> TRUE, value |-> Len(texts)]
                        /\ task' = task

(***************************************************************************)
(* RAGService._process_entities: one turn of its loop, the await of         *)
(* entity_extractor.extract returning result, and after the last turn the   *)
(* rest of the method and of process_document.                              *)
(***************************************************************************)
\* unique_entities: the first entity of each lower-cased name
RECURSIVE UniqueEntities(_)
UniqueEntities(all_entities) ==
    IF all_entities = <<>> THEN <<>>
    ELSE LET front == UniqueEntities(SubSeq(all_entities, 1, Len(all_entities) - 1))
             entity == all_entities[Len(all_entities)]
         IN  IF \E i \in 1..Len(front) : Lower(front[i].name) = Lower(entity.name)
             THEN front
             ELSE Append(front, entity)

\* texts[i:i + batch_size], i from 0
Batch(texts, i) == SubSeq(texts, i + 1, Min(i + batch_size, Len(texts)))

\* _process_entities without its except clause: the failure of the graph
\* write leaves the method
process_entities_uncaught(stored_ok) == stored_ok

\* the try/except of _process_entities: the method returns whether or not
\* the graph write raised
process_entities_caught(stored_ok) == TRUE

ProcessEntities(result) ==
    LET all_entities == task.all_entities \o result.entities
        all_relations == task.all_relations \o result.relations
        stored == GS_add_entities(connected, up, db, task.notebook_id, task.document_id,
                                  UniqueEntities(all_entities), all_relations,
                                  Take(task.texts, GraphChunkLimit))
    IN  /\ task.pc = "extract"
        /\ result \in extract(JoinParagraphs(Batch(task.texts, task.i)))
        /\ UNCHANGED <<vs, bs, up, connected, model, reranker, probeFailed,
                       uploaded, notebook_store>>
        /\ IF task.i + batch_size < Len(task.texts)
           THEN /\ task' = [task EXCEPT !.i = @ + batch_size,
                                        !.all_entities = all_entities,
                                        !.all_relations = all_relations]
                /\ last' = [op |-> "process_document", notebook_id |-> task.notebook_id,
                            document_id |-> task.document_id,
                            ok |-> TRUE, value |-> "awaiting"]
                /\ UNCHANGED <<db, deleted>>
           ELSE /\ task' = Idle
                /\ db' = stored.db
                /\ deleted' = IF stored.db # db THEN Ingested(task.document_id) ELSE deleted
                /\ last' = [op |-> "process_document", notebook_id |-> task.notebook_id,
                            document_id |-> task.document_id,
                            ok |-> process_entities_caught(stored.ok),
                            value |-> IF process_entities_caught(stored.ok)
                                      THEN Len(task.texts) ELSE "graph"]

(***************************************************************************)
(* RAGService.delete_document and delete_notebook.  last records where the  *)
(* document was before the call and where it is after it.                   *)
(***************************************************************************)
\* the document has chunks in the notebook's vector collection
InVector(store, notebook_id, document_id) ==
    LET name == VS_get_collection_name(notebook_id)
    IN  /\ name \in DOMAIN store.collections
        /\ \E i \in 1..Len(store.collections[name].metadatas) :
               store.collections[name].metadatas[i].document_id = document_id

\* the document has chunks in the notebook's BM25 collection or index
InBM25(store, notebook_id, document_id) ==
    LET name == BM_get_collection_name(notebook_id)
    IN  /\ name \in DOMAIN store.collections
        /\ \E i \in 1..Len(store.collections[name].metadatas) :
               store.collections[name].metadatas[i].document_id = document_id

\* the graph holds a chunk of the document, or an entity that lists it
InGraph(graph, notebook_id, document_id) ==
    \/ \E i \in 1..Len(graph.chunks) :
           graph.chunks[i].notebook_id = notebook_id
           /\ graph.chunks[i].document_id = document_id
    \/ \E i \in 1..Len(graph.entities) :
           graph.entities[i].notebook_id = notebook_id
           /\ document_id \in Range(graph.entities[i].document_ids)

Presence(v, b, g, notebook_id, document_id) ==
    [vector |-> InVector(v, notebook_id, document_id),
     bm25 |-> InBM25(b, notebook_id, document_id),
     graph |-> InGraph(g, notebook_id, document_id)]

DeleteDocument(notebook_id, document_id) ==
    LET vs1 == VS_delete_document(vs, notebook_id, document_id)
        bm == BM_delete_document(bs, notebook_id, document_id)
        gs == GS_delete_document(connected, up, db, notebook_id, document_id)
        graphed == bm.ok /\ connected
        ok == bm.ok /\ (connected => gs.ok)
    IN  /\ document_id \in uploaded
        /\ vs' = vs1
        /\ bs' = bm.store
        /\ db' = IF graphed THEN gs.db ELSE db
        /\ deleted' = IF ok THEN deleted \cup {<<notebook_id, document_id>>} ELSE deleted
        /\ last' = [op |-> "delete_document", notebook_id |-> notebook_id,
                    document_id |-> document_id, ok |-> ok,
                    raised |-> IF ~bm.ok THEN "bm25"
                               ELSE IF ~ok THEN "graph" ELSE "none",
                    before |-> Presence(vs, bs, db, notebook_id, document_id),
                    after |-> Presence(vs', bs', db', notebook_id, document_id)]
        /\ UNCHANGED <<up, connected, model, reranker, task, probeFailed,
                       uploaded, notebook_store>>

\* the documents that have data of the notebook in some index
DocumentsOf(v, b, g, notebook_id) ==
    {d \in DocumentIds :
        LET at == Presence(v, b, g, notebook_id, d)
        IN  at.vector \/ at.bm25 \/ at.graph}

DeleteNotebook(notebook_id) ==
    LET gs == GS_delete_notebook(connected, up, db, notebook_id)
    IN  /\ vs' = VS_delete_notebook(vs, notebook_id)
        /\ bs' = BM_delete_notebook(bs, notebook_id)
        /\ db' = IF connected THEN gs.db ELSE db
        /\ last' = [op |-> "delete_notebook", notebook_id |-> notebook_id,
                    ok |-> (connected => gs.ok),
                    before |-> [d \in DocumentIds |-> Presence(vs, bs, db, notebook_id, d)],
                    after |-> [d \in DocumentIds |-> Presence(vs', bs', db', notebook_id, d)]]
        /\ UNCHANGED <<up, connected, model, reranker, task, probeFailed,
                       uploaded, notebook_store, deleted>>

(***************************************************************************)
(* RAGService.get_stats: HybridRetriever.get_retrieval_stats.               *)
(***************************************************************************)
get_retrieval_stats(st, notebook_id) ==
    LET graph == IF st.connected
                 THEN GS_get_statistics(st.connected, st.up, st.db, notebook_id)
                 ELSE GS_noop(st.db, [connected |-> FALSE])
    IN  [ok |-> graph.ok,
         value |-> [vector_store |-> [documents |-> VS_get_document_count(st.vs, notebook_id)],
                    bm25_store |-> BM_get_statistics(st.bs, notebook_id),
                    graph_store |-> graph.result]]

GetStats(notebook_id) ==
    LET stats == get_retrieval_stats(RetrieverState, notebook_id)
    IN  /\ last' = [op |-> "get_stats", notebook_id |-> notebook_id, ok |-> stats.ok,
                    raised |-> IF stats.ok THEN "none" ELSE "graph",
                    value |-> stats.value]
        /\ UNCHANGED <<vs, bs, db, up, connected, model, reranker, task, probeFailed,
                       uploaded, notebook_store, deleted>>

(***************************************************************************)
(* HybridRetriever.retrieve, called on the retriever of the service.        *)
(***************************************************************************)
\* the part of a retrieve value that the caller and the log see
Outcome(r) ==
    [results |-> r.results, vector_hits |-> r.vector_hits, bm25_hits |-> r.bm25_hits,
     graph_hits |-> r.graph_hits, all_results |-> r.all_results,
     fused_results |-> r.fused_results, reranked |-> r.reranked,
     vector_raised |-> r.vector_raised, bm25_raised |-> r.bm25_raised,
     graph_raised |-> r.graph_raised, predict_raised |-> r.predict_raised]

\* what the call leaves behind, r being the value of retrieve
Retrieved(notebook_id, query, top_k, flags, env, r) ==
    /\ vs' = r.vs
    /\ bs' = r.bs
    /\ model' = r.model
    /\ reranker' = r.reranker
    /\ last' = [op |-> "retrieve", notebook_id |-> notebook_id, query |-> query,
                top_k |-> top_k, flags |-> flags, env |-> env, ok |-> r.ok,
                value |-> Outcome(r)]
    /\ UNCHANGED <<db, up, connected, task, probeFailed, uploaded,
                   notebook_store, deleted>>

Retrieve(notebook_id, query, top_k, flags, env) ==
    Retrieved(notebook_id, query, top_k, flags, env,
              retrieve(RetrieverState, notebook_id, query, top_k, flags.use_vector,
                       flags.use_bm25, flags.use_graph, flags.use_reranker, env))

(***************************************************************************)
(* RAGService.query.  llm_ok tells whether llm_client.generate returns.     *)
(***************************************************************************)
NoDocuments == "No relevant documents found in this notebook. Please upload some documents first."

\* all_entities of _hybrid_query
RECURSIVE AllEntities(_)
AllEntities(results) ==
    IF results = <<>> THEN <<>>
    ELSE Head(results).entities \o AllEntities(Tail(results))

\* _hybrid_query without its early return: it goes on to the chat model
\* whatever retrieve returned
no_results_ignored(results) == FALSE

\* "if not results:" of _hybrid_query
no_results(results) == results = <<>>

\* RAGService._hybrid_query after its call of retrieve, r being the value of
\* that call: [ok |-> it returned, value |-> the dict, r |-> what retrieve did,
\* generated |-> llm_client.generate was called]
hybrid_answer(st, notebook_id, llm_ok, r) ==
    LET results == r.results
        sources == [i \in 1..Len(results) |->
                       [document_id |-> IF "document_id" \in DOMAIN results[i].metadata
                                        THEN results[i].metadata.document_id ELSE "",
                        chunk_text |-> results[i].text,
                        relevance_score |-> results[i].score]]
        all_entities == AllEntities(results)
        named == LET HasName(e) == e.name # <<>> IN FilterSeq(all_entities, HasName)
        context == IF all_entities # <<>> /\ st.connected
                   THEN GS_get_entity_context(st.connected, st.up, st.db, notebook_id,
                            Take([i \in 1..Len(named) |-> named[i].name], 5))
                   ELSE GS_noop(st.db, <<>>)
    IN  IF ~r.ok
        THEN [ok |-> FALSE, r |-> r, contacted |-> r.contacted, generated |-> FALSE,
              value |-> "retrieve"]
        ELSE IF no_results(results)
        THEN [ok |-> TRUE, r |-> r, contacted |-> r.contacted, generated |-> FALSE,
              value |-> [answer |-> NoDocuments, sources |-> <<>>, entities |-> <<>>]]
        ELSE IF ~context.ok \/ ~llm_ok
        THEN [ok |-> FALSE, r |-> r, contacted |-> r.contacted \/ context.contacted,
              generated |-> context.ok,
              value |-> IF ~context.ok THEN "graph" ELSE "llm"]
        ELSE [ok |-> TRUE, r |-> r, contacted |-> r.contacted \/ context.contacted,
              generated |-> TRUE,
              value |-> [answer |-> "generated", sources |-> sources,
                         entities |-> Take(all_entities, 10),
                         retrieval_mode |-> "hybrid"]]

\* RAGService._hybrid_query
hybrid_query(st, notebook_id, query, top_k, env, llm_ok) ==
    hybrid_answer(st, notebook_id, llm_ok,
                  retrieve(st, notebook_id, query, top_k, TRUE, settings_use_bm25_search,
                           settings_use_graph_search, settings_use_reranker, env))

\* RAGService._simple_query: [ok, value, vs |-> the vector store afterwards]
simple_query(store, notebook_id, query, top_k, env, llm_ok) ==
    LET name == VS_get_collection_name(notebook_id)
        created == VS_get_or_create_collection(store, notebook_id)
        results == VS_query_result(created, notebook_id, encode_single(query), top_k)
        sources == [i \in 1..Len(results.documents) |->
                       [document_id |-> results.metadatas[i].document_id,
                        chunk_text |-> results.documents[i],
                        relevance_score |->
                            Frac(Max(0, results.distances[i].den - results.distances[i].num),
                                 results.distances[i].den)]]
    IN  IF ~env.encode_ok
        THEN [ok |-> FALSE, value |-> "encode", vs |-> store, generated |-> FALSE]
        ELSE IF name \notin DOMAIN store.collections /\ ~env.disk_ok
        THEN [ok |-> FALSE, value |-> "disk", generated |-> FALSE,
              vs |-> [store EXCEPT !.collections = created.collections]]
        ELSE IF results.documents = <<>>
        THEN [ok |-> TRUE, vs |-> created, generated |-> FALSE,
              value |-> [answer |-> NoDocuments, sources |-> <<>>,
                         retrieval_mode |-> "simple"]]
        ELSE IF ~llm_ok
        THEN [ok |-> FALSE, value |-> "llm", vs |-> created, generated |-> TRUE]
        ELSE [ok |-> TRUE, vs |-> created, generated |-> TRUE,
              value |-> [answer |-> "generated", sources |-> sources,
                         retrieval_mode |-> "simple"]]

\* what RAGService.query leaves behind, h and s being the values of
\* _hybrid_query and _simple_query and call the arguments
Queried(call, hybrid, h, s) ==
    /\ UNCHANGED <<db, up, connected, task, probeFailed, uploaded,
                   notebook_store, deleted>>
    /\ IF hybrid
       THEN /\ vs' = h.r.vs
            /\ bs' = h.r.bs
            /\ model' = h.r.model
            /\ reranker' = h.r.reranker
            /\ last' = call @@ [ok |-> h.ok, value |-> h.value, generated |-> h.generated]
       ELSE /\ vs' = s.vs
            /\ last' = call @@ [ok |-> s.ok, value |-> s.value, generated |-> s.generated]
            /\ UNCHANGED <<bs, model, reranker>>

\* use_hybrid is the argument after its default (self.use_hybrid) is applied;
\* top_k = 0 stands for None
Query(notebook_id, query, top_k0, use_hybrid, env, llm_ok) ==
    Queried([op |-> "query", notebook_id |-> notebook_id, query |-> query,
             top_k |-> top_k0, use_hybrid |-> use_hybrid, env |-> env,
             llm_ok |-> llm_ok],
            use_hybrid /\ settings_use_hybrid_rag,
            hybrid_query(RetrieverState, notebook_id, query,
                         IF top_k0 = 0 THEN top_k_default ELSE top_k0, env, llm_ok),
            simple_query(vs, notebook_id, query,
                         IF top_k0 = 0 THEN top_k_default ELSE top_k0, env, llm_ok))

(***************************************************************************)
(* Reranker.rerank, called on the reranker of the service.                  *)
(***************************************************************************)
CandidateDocs ==
    {[text |-> T1, metadata |-> [document_id |-> "d1"], score |-> Frac(1, 61),
      source |-> <<"vector">>],
     [text |-> T2, metadata |-> [document_id |-> "d1"], score |-> Frac(1, 61),
      source |-> <<"bm25">>],
     [text |-> T3, metadata |-> [document_id |-> "d2"], score |-> Frac(2, 61),
      source |-> <<"vector", ",", "bm25">>]}

\* the lists of distinct candidates
CandidateLists ==
    UNION {{q \in [1..n -> CandidateDocs] : \A i, j \in 1..n : q[i] = q[j] => i = j}
           : n \in 0..Cardinality(CandidateDocs)}

\* the call reaches CrossEncoder(...): is_available has no cached answer and
\* get_reranker_model finds _reranker_model None
LoadAttempted == reranker = "None" /\ model = "None"

Rerank(documents, top_k, env) ==
    LET model1 == IF documents # <<>> /\ reranker = "None"
                  THEN get_reranker_model(model, env.loadable) ELSE model
        reranker1 == IF documents # <<>> THEN is_available(reranker, model1) ELSE reranker
    IN  /\ model' = model1
        /\ reranker' = reranker1
        /\ last' = [op |-> "rerank", documents |-> documents, top_k |-> top_k,
                    env |-> env, ok |-> TRUE,
                    attempted |-> documents # <<>> /\ LoadAttempted,
                    value |-> rerank(reranker1 = "True", settings_use_reranker,
                                     documents, top_k, env.predict)]
        /\ UNCHANGED <<vs, bs, db, up, connected, task, probeFailed,
                       uploaded, notebook_store, deleted>>

\* Reranker.is_available, read by a caller
IsAvailable(env) ==
    LET model1 == IF reranker = "None"
                  THEN get_reranker_model(model, env.loadable) ELSE model
    IN  /\ model' = model1
        /\ reranker' = is_available(reranker, model1)
        /\ last' = [op |-> "is_available", env |-> env, ok |-> TRUE,
                    attempted |-> LoadAttempted,
                    value |-> is_available(reranker, model1) = "True"]
        /\ UNCHANGED <<vs, bs, db, up, connected, task, probeFailed,
                       uploaded, notebook_store, deleted>>

\* Reranker(): another instance takes the place of the reranker
NewReranker ==
    /\ reranker' = "None"
    /\ last' = [op |-> "new_reranker"]
    /\ UNCHANGED <<vs, bs, db, up, connected, model, task, probeFailed,
                   uploaded, notebook_store,
                   deleted>>

(***************************************************************************)
(* The methods of GraphStore, called on the graph store of the service.     *)
(***************************************************************************)
GraphStoreMethods ==
    {"add_entities", "search_by_entities", "search_by_query", "get_entity_context",
     "delete_document", "delete_notebook", "get_statistics"}

GraphStoreCall(method, notebook_id, document_id, extraction, query, top_k) ==
    LET called ==
            CASE method = "add_entities" ->
                     GS_add_entities(connected, up, db, notebook_id, document_id,
                                     extraction.entities, extraction.relations, <<>>)
              [] method = "search_by_entities" ->
                     GS_search_by_entities(connected, up, db, notebook_id,
                                           extract_entities_from_query(query), 0, top_k)
              [] method = "search_by_query" ->
                     GS_search_by_query(connected, up, db, notebook_id, query, top_k)
              [] method = "get_entity_context" ->
                     GS_get_entity_context(connected, up, db, notebook_id,
                                           extract_entities_from_query(query))
              [] method = "delete_document" ->
                     GS_delete_document(connected, up, db, notebook_id, document_id)
              [] method = "delete_notebook" ->
                     GS_delete_notebook(connected, up, db, notebook_id)
              [] method = "get_statistics" ->
                     GS_get_statistics(connected, up, db, notebook_id)
    IN  /\ db' = called.db
        /\ deleted' = IF method = "add_entities" /\ called.db # db
                      THEN Ingested(document_id) ELSE deleted
        /\ last' = [op |-> "graph_store", method |-> method, notebook_id |-> notebook_id,
                    ok |-> called.ok, value |-> called.result,
                    contacted |-> called.contacted]
        /\ UNCHANGED <<vs, bs, up, connected, model, reranker, task,
                       probeFailed, uploaded, notebook_store>>

(***************************************************************************)
(* The environment: the graph engine goes down or comes back, and the       *)
(* server process is started again (main.py builds the services anew, the   *)
(* stores load their files, GraphStore.__init__ probes the engine).         *)
(***************************************************************************)
EngineToggle ==
    /\ up' = ~up
    /\ last' = [op |-> "engine", up |-> ~up]
    /\ UNCHANGED <<vs, bs, db, connected, model, reranker, task, probeFailed,
                   uploaded, notebook_store, deleted>>

Restart ==
    /\ vs' = VS_init(vs.files)
    /\ bs' = BM_init(bs.files)
    /\ connected' = GS_connect(up)
    /\ model' = "None"
    /\ reranker' = "None"
    /\ task' = Idle
    /\ probeFailed' = ~up
    /\ last' = [op |-> "restart"]
    /\ UNCHANGED <<db, up, uploaded, notebook_store, deleted>>

(***************************************************************************)
(* The service from its start: documents are ingested and deleted, the      *)
(* graph engine goes down and comes back, the process is started again.     *)
(***************************************************************************)
Next ==
    \/ \E document \in Documents, texts \in FileChunks, encode_ok \in BOOLEAN :
           ProcessDocument(document.notebook_id, document.id, texts, encode_ok)
    \/ \E result \in ModelExtractions : ProcessEntities(result)
    \/ \E document \in Documents : DeleteDocument(document.notebook_id, document.id)
    \/ \E notebook_id \in NotebookIds : DeleteNotebook(notebook_id)
    \/ \E notebook_id \in NotebookIds : GetStats(notebook_id)
    \/ EngineToggle
    \/ Restart

Spec == Init /\ [][Next]_vars

(***************************************************************************)
(* The service with documents indexed, answering retrieve calls             *)
(* (SpecRetrieve) and query calls (SpecQuery).  It starts in a state the    *)
(* operations above lead to: nothing ingested; IndexedFile ingested as d1   *)
(* with the graph store disconnected; the same with the graph store         *)
(* connected; d1 and d2 ingested, delete_document of d1 then raising in     *)
(* BM25Store._rebuild_bm25_index; and LongFile ingested as d1.  The graph    *)
(* store is connected or not, the                                           *)
(* engine reachable or not, and the reranker model not asked for yet,       *)
(* loaded, or found unloadable.  A behaviour is one call.                   *)
(***************************************************************************)
\* the stores after steps 1 and 2 of process_document
Indexed(stores, notebook_id, document_id, texts) ==
    LET metadatas == [i \in 1..Len(texts) |-> ChunkMetadata(notebook_id, document_id, i)]
    IN  [vs |-> VS_add_documents(stores.vs, notebook_id, document_id, texts,
                                 encode(texts), metadatas),
         bs |-> BM_add_documents(stores.bs, notebook_id, document_id, texts,
                                 metadatas).store]

\* the graph after _process_entities on the texts of d1
Graphed(texts) ==
    GS_add_entities(TRUE, TRUE, EmptyGraph, nbA, "d1", <<E_Abc, E_Cd>>, <<R_Abc_Cd>>,
                    Take(texts, GraphChunkLimit)).db

Scenarios ==
    LET fresh == [vs |-> VS_init(EmptyDict), bs |-> BM_init(EmptyDict)]
        one == Indexed(fresh, nbA, "d1", IndexedFile)
        two == Indexed(Indexed(fresh, nbA, "d1", <<T1, T3>>), nbB, "d2", <<T4>>)
        long == Indexed(fresh, nbA, "d1", LongFile)
    IN  {[vs |-> fresh.vs, bs |-> fresh.bs, db |-> EmptyGraph, uploaded |-> {}],
         [vs |-> one.vs, bs |-> one.bs, db |-> EmptyGraph, uploaded |-> {"d1"}],
         [vs |-> one.vs, bs |-> one.bs, db |-> Graphed(IndexedFile), uploaded |-> {"d1"}],
         [vs |-> VS_delete_document(two.vs, nbA, "d1"),
          bs |-> BM_delete_document(two.bs, nbA, "d1").store,
          db |-> Graphed(<<T1, T3>>), uploaded |-> {"d1", "d2"}],
         [vs |-> long.vs, bs |-> long.bs, db |-> EmptyGraph, uploaded |-> {"d1"}]}

InitIndexed ==
    /\ \E s \in Scenarios :
           /\ vs = s.vs
           /\ bs = s.bs
           /\ db = s.db
           /\ uploaded = s.uploaded
           /\ notebook_store = EmptyNotebookStore
    /\ up \in BOOLEAN
    /\ connected \in BOOLEAN
    /\ probeFailed = ~connected
    /\ \E loaded \in {"None", "True", "False"} :
           /\ reranker = loaded
           /\ model = CASE loaded = "None" -> "None"
                         [] loaded = "True" -> "loaded"
                         [] loaded = "False" -> "False"
    /\ task = Idle
    /\ last = [op |-> "init"]
    /\ deleted = {}

AllFlags == [use_vector |-> TRUE, use_bm25 |-> TRUE, use_graph |-> TRUE, use_reranker |-> TRUE]

RetrieveFlags ==
    {AllFlags,
     [AllFlags EXCEPT !.use_graph = FALSE],
     [AllFlags EXCEPT !.use_reranker = FALSE],
     [AllFlags EXCEPT !.use_graph = FALSE, !.use_reranker = FALSE],
     [AllFlags EXCEPT !.use_vector = FALSE, !.use_reranker = FALSE],
     [AllFlags EXCEPT !.use_bm25 = FALSE, !.use_reranker = FALSE]}

\* the queries of the retrieval specifications: one that names an entity, one
\* whose word the second chunk holds
RetrieveQueries == {Q1, Q3}

NextRetrieve ==
    /\ last.op = "init"
    /\ \E query \in RetrieveQueries, top_k \in {0} \cup TopKs, flags \in RetrieveFlags,
          env \in Envs :
           Retrieve(nbA, query, top_k, flags, env)

SpecRetrieve == InitIndexed /\ [][NextRetrieve]_vars

NextQuery ==
    /\ last.op = "init"
    /\ \E query \in RetrieveQueries, top_k \in {0} \cup TopKs, use_hybrid \in BOOLEAN,
          env \in Envs, llm_ok \in BOOLEAN :
           Query(nbA, query, top_k, use_hybrid, env, llm_ok)

SpecQuery == InitIndexed /\ [][NextQuery]_vars

(***************************************************************************)
(* The graph store alone: its methods are called while the engine goes down *)
(* and comes back and the process is started again.                         *)
(***************************************************************************)
NextGraph ==
    \/ \E method \in GraphStoreMethods, document \in Documents,
          query \in RetrieveQueries, top_k \in TopKs,
          extraction \in {x \in ModelExtractions : E_Abc \in Range(x.entities)} :
           GraphStoreCall(method, document.notebook_id, document.id, extraction,
                          query, top_k)
    \/ EngineToggle
    \/ Restart

SpecGraph == Init /\ [][NextGraph]_vars

(***************************************************************************)
(* The graph of one notebook with two documents: what the chat model finds  *)
(* in each document is stored, the documents are deleted, the graph is      *)
(* searched.                                                                *)
(***************************************************************************)
NextNotebookGraph ==
    \/ \E method \in GraphStoreMethods, document_id \in DocumentIds,
          query \in {Q1}, top_k \in TopKs, extraction \in ModelExtractions :
           GraphStoreCall(method, nbA, document_id, extraction, query, top_k)
    \/ EngineToggle
    \/ Restart

SpecNotebookGraph == Init /\ [][NextNotebookGraph]_vars

(***************************************************************************)
(* The service in use: on the indexed scenarios documents are ingested and *)
(* deleted and the notebook is searched, in any order; a search can run    *)
(* while an ingestion is suspended at its await of the extractor.          *)
(***************************************************************************)
\* the searches and the fusion, without the reranker
ServeFlags == [AllFlags EXCEPT !.use_reranker = FALSE]

\* the indexed scenarios in a process that has not loaded the reranker
InitServe == InitIndexed /\ reranker = "None"

NextServe ==
    \/ \E document \in Documents, texts \in FileChunks :
           ProcessDocument(document.notebook_id, document.id, texts, TRUE)
    \/ \E result \in ModelExtractions : ProcessEntities(result)
    \/ \E document \in Documents : DeleteDocument(document.notebook_id, document.id)
    \/ \E query \in RetrieveQueries, top_k \in TopKs :
           Retrieve(nbA, query, top_k, ServeFlags, AllWell)

SpecServe == InitServe /\ [][NextServe]_vars

(***************************************************************************)
(* The documents API from the start of the service: notebooks are created  *)
(* and files are uploaded to them, statistics are read, the graph engine   *)
(* goes down and comes back, the process is started again.                 *)
(***************************************************************************)
\* what rag_service.process_document(...) evaluates to without await: the
\* coroutine object of the call, whose body has not started (an int n would
\* be [type |-> "int", n |-> n])
PyCoroutine == [type |-> "coroutine", n |-> 0]

\* Document(notebook_id=..., ...) with chunk_count assigned afterwards
\* (the model does not validate assignments)
Document(notebook_id, document_id, chunk_count) ==
    [id |-> document_id, notebook_id |-> notebook_id, chunk_count |-> chunk_count]

\* store.create_document: data["documents"][document.id] = model_dump()
create_document(store, document) ==
    [store EXCEPT !.documents = Put(@, document.id, document)]

\* DocumentResponse validates the returned document: chunk_count: int
response_valid(document) == document.chunk_count.type = "int"

\* POST /notebooks
CreateNotebook(notebook_id) ==
    /\ notebook_id \notin notebook_store.notebooks
    /\ notebook_store' = [notebook_store EXCEPT !.notebooks = @ \cup {notebook_id}]
    /\ last' = [op |-> "create_notebook", notebook_id |-> notebook_id]
    /\ UNCHANGED <<vs, bs, db, up, connected, model, reranker, task,
                   probeFailed, uploaded, deleted>>

\* POST /notebooks/{notebook_id}/documents. valid: validate_file returns no
\* error. The call of process_document is not awaited: it makes the
\* coroutine object and runs nothing of the body, the object is assigned to
\* chunk_count, the record is stored, and the response model then rejects
\* the document (status 500, raised after the try block).
UploadDocument(notebook_id, document_id, valid) ==
    LET chunk_count == PyCoroutine
        document == Document(notebook_id, document_id, chunk_count)
        status == IF notebook_id \notin notebook_store.notebooks THEN 404
                  ELSE IF ~valid THEN 400
                  ELSE IF response_valid(document) THEN 200 ELSE 500
        created == status \in {200, 500}
    IN  /\ document_id \notin uploaded
        /\ document_id \notin DOMAIN notebook_store.documents
        /\ notebook_store' = IF created THEN create_document(notebook_store, document)
                             ELSE notebook_store
        /\ uploaded' = IF created THEN uploaded \cup {document_id} ELSE uploaded
        /\ last' = [op |-> "upload_document", notebook_id |-> notebook_id,
                    document_id |-> document_id, status |-> status,
                    processed |-> FALSE]
        /\ UNCHANGED <<vs, bs, db, up, connected, model, reranker, task,
                       probeFailed, deleted>>

NextDocuments ==
    \/ \E notebook_id \in NotebookIds : CreateNotebook(notebook_id)
    \/ \E notebook_id \in NotebookIds, document_id \in DocumentIds, valid \in BOOLEAN :
           UploadDocument(notebook_id, document_id, valid)
    \/ \E notebook_id \in NotebookIds : GetStats(notebook_id)
    \/ EngineToggle
    \/ Restart

SpecDocuments == Init /\ [][NextDocuments]_vars

(***************************************************************************)
(* The vector store alone, with the collection of one notebook: chunks are  *)
(* stored with embeddings chosen freely, queried and deleted, and the       *)
(* process is started again.                                                *)
(***************************************************************************)
\* embeddings of integral norm: two of one direction, one of another, and
\* the zero vector
VectorEmbeddings == {<<3, 4>>, <<6, 8>>, <<4, 3>>, <<0, 0>>}

\* the embeddings of the chunks of a document: d1 has up to MaxChunks
\* chunks, every other document has one
EmbeddingLists(document_id) ==
    UNION {[1..n -> VectorEmbeddings]
           : n \in 1..(IF document_id = "d1" THEN MaxChunks ELSE 1)}

\* VectorStore.add_documents
VectorAdd(notebook_id, document_id, embeddings) ==
    LET texts == [i \in 1..Len(embeddings) |-> IF i % 2 = 1 THEN T1 ELSE T3]
        metadatas == [i \in 1..Len(embeddings) |->
                         ChunkMetadata(notebook_id, document_id, i)]
    IN  /\ document_id \notin uploaded
        /\ uploaded' = uploaded \cup {document_id}
        /\ UNCHANGED notebook_store
        /\ vs' = VS_add_documents(vs, notebook_id, document_id, texts, embeddings,
                                  metadatas)
        /\ last' = [op |-> "add_documents", notebook_id |-> notebook_id,
                    document_id |-> document_id, embeddings |-> embeddings]
        /\ UNCHANGED <<bs, db, up, connected, model, reranker, task, probeFailed,
                       deleted>>

\* VectorStore.query
VectorQuery(notebook_id, query_embedding, top_k) ==
    /\ vs' = VS_query_store(vs, notebook_id)
    /\ last' = [op |-> "vector_query", notebook_id |-> notebook_id,
                query_embedding |-> query_embedding, top_k |-> top_k,
                value |-> VS_query_result(VS_query_store(vs, notebook_id), notebook_id,
                                          query_embedding, top_k)]
    /\ UNCHANGED <<bs, db, up, connected, model, reranker, task, probeFailed,
                   uploaded, notebook_store, deleted>>

\* VectorStore.delete_document
VectorDelete(notebook_id, document_id) ==
    /\ document_id \in uploaded
    /\ vs' = VS_delete_document(vs, notebook_id, document_id)
    /\ last' = [op |-> "vector_delete", notebook_id |-> notebook_id,
                document_id |-> document_id]
    /\ UNCHANGED <<bs, db, up, connected, model, reranker, task, probeFailed,
                   uploaded, notebook_store, deleted>>

NextVector ==
    \/ \E document_id \in DocumentIds :
           \E embeddings \in EmbeddingLists(document_id) :
               VectorAdd(nbA, document_id, embeddings)
    \/ \E query_embedding \in VectorEmbeddings, top_k \in TopKs :
           VectorQuery(nbA, query_embedding, top_k)
    \/ \E document_id \in DocumentIds : VectorDelete(nbA, document_id)
    \/ Restart

SpecVector == Init /\ [][NextVector]_vars

(***************************************************************************)
(* The BM25 store alone, with the collection of one notebook: short chunks  *)
(* are stored, searched and deleted, the collection is deleted, and the     *)
(* process is started again.                                                *)
(***************************************************************************)
\* chunk texts: one token, another token twice, no token longer than one
\* character
BMTexts == {<<"a", "b">>, <<"c", "d", " ", "c", "d">>, <<"a">>}

\* queries: one token, no token longer than one character, two tokens
BMQueries == {<<"a", "b">>, <<"a">>, <<"a", "b", " ", "c", "d">>}

\* the chunks of a document: d1 has up to MaxChunks chunks, every other
\* document has one
BMTextLists(document_id) ==
    UNION {[1..n -> BMTexts]
           : n \in 1..(IF document_id = "d1" THEN MaxChunks ELSE 1)}

\* BM25Store.add_documents
BMAdd(notebook_id, document_id, texts) ==
    LET metadatas == [i \in 1..Len(texts) |->
                         ChunkMetadata(notebook_id, document_id, i)]
        added == BM_add_documents(bs, notebook_id, document_id, texts, metadatas)
    IN  /\ document_id \notin uploaded
        /\ uploaded' = uploaded \cup {document_id}
        /\ UNCHANGED notebook_store
        /\ bs' = added.store
        /\ last' = [op |-> "bm25_add", notebook_id |-> notebook_id,
                    document_id |-> document_id, ok |-> added.ok]
        /\ UNCHANGED <<vs, db, up, connected, model, reranker, task, probeFailed,
                       deleted>>

\* BM25Store.search
BMSearch(notebook_id, query, top_k) ==
    LET store == BM_search_store(bs, notebook_id)
        found == BM_search_result(store, notebook_id, query, top_k)
    IN  /\ bs' = store
        /\ last' = [op |-> "bm25_search", notebook_id |-> notebook_id,
                    query |-> query, top_k |-> top_k, ok |-> found.ok,
                    value |-> found.results]
        /\ UNCHANGED <<vs, db, up, connected, model, reranker, task, probeFailed,
                       uploaded, notebook_store, deleted>>

\* BM25Store.delete_document
BMDelete(notebook_id, document_id) ==
    LET left == BM_delete_document(bs, notebook_id, document_id)
    IN  /\ document_id \in uploaded
        /\ bs' = left.store
        /\ last' = [op |-> "bm25_delete", notebook_id |-> notebook_id,
                    document_id |-> document_id, ok |-> left.ok]
        /\ UNCHANGED <<vs, db, up, connected, model, reranker, task, probeFailed,
                       uploaded, notebook_store, deleted>>

\* BM25Store.delete_notebook
BMDeleteNotebook(notebook_id) ==
    /\ bs' = BM_delete_notebook(bs, notebook_id)
    /\ last' = [op |-> "bm25_delete_notebook", notebook_id |-> notebook_id]
    /\ UNCHANGED <<vs, db, up, connected, model, reranker, task, probeFailed,
                   uploaded, notebook_store, deleted>>

NextBM25 ==
    \/ \E document_id \in DocumentIds :
           \E texts \in BMTextLists(document_id) : BMAdd(nbA, document_id, texts)
    \/ \E query \in BMQueries, top_k \in TopKs : BMSearch(nbA, query, top_k)
    \/ \E document_id \in DocumentIds : BMDelete(nbA, document_id)
    \/ BMDeleteNotebook(nbA)
    \/ Restart

SpecBM25 == Init /\ [][NextBM25]_vars

(***************************************************************************)
(* The entity extractor alone: extract is called on a text and the chat     *)
(* model answers freely.                                                    *)
(***************************************************************************)
\* items of the "entities" list: two entities, one with a name to strip, one
\* of a type outside the vocabulary, one whose name is a number, one
\* without a name, and an item that is no object
EntityItems ==
    {[t |-> "dict", name |-> JStr(<<"A", "b", "c">>), type |-> JWord("Organization")],
     [t |-> "dict", name |-> JStr(<<" ", "C", "d">>), type |-> JWord("Animal")],
     [t |-> "dict", name |-> JNum, type |-> JWord("Person")],
     [t |-> "dict", name |-> JAbsent, type |-> JWord("Person")],
     [t |-> "str", name |-> JAbsent, type |-> JAbsent]}

\* items of the "relations" list: a relation between the two entities, one
\* whose source is a number, and an item that is no object
RelationItems ==
    {[t |-> "dict", source |-> JStr(<<"a", "b", "c">>), target |-> JStr(<<"C", "d", " ">>),
      type |-> JWord("LOCATED_IN")],
     [t |-> "dict", source |-> JNum, target |-> JStr(<<"C", "d">>), type |-> JAbsent],
     [t |-> "str", source |-> JAbsent, target |-> JAbsent, type |-> JAbsent]}

JList(items) == [t |-> "list", items |-> items]
JNoList(t) == [t |-> t, items |-> <<>>]

ItemLists(S) == UNION {[1..n -> S] : n \in 0..MaxItems}

\* the answers of the chat model
ModelContents ==
    {[json |-> j, entities |-> JNoList("absent"), relations |-> JNoList("absent")]
        : j \in {"none", "invalid"}}
    \cup {[json |-> "object", entities |-> e, relations |-> r]
            : e \in {JList(items) : items \in ItemLists(EntityItems)}
                    \cup {JNoList("absent"), JNoList("num")},
              r \in {JList(items) : items \in ItemLists(RelationItems)}
                    \cup {JNoList("absent"), JNoList("num")}}

\* the outcomes of the HTTP call
ModelResponses ==
    {[http |-> h, content |-> [json |-> "none", entities |-> JNoList("absent"),
                               relations |-> JNoList("absent")]]
        : h \in {"http_error", "bad_body"}}
    \cup {[http |-> "ok", content |-> c] : c \in ModelContents}

\* EntityExtractor.extract, which keeps no state: one call is followed after
\* each start of the process
Extract(text, response) ==
    LET r == extract_response(text, response)
    IN  /\ last.op # "extract"
        /\ last' = [op |-> "extract", text |-> text, response |-> response,
                    ok |-> r.ok, called |-> r.called, value |-> r.value]
        /\ UNCHANGED <<vs, bs, db, up, connected, model, reranker, task,
                       probeFailed, uploaded, notebook_store, deleted>>

NextExtract ==
    \/ \E text \in {T1, T3}, response \in ModelResponses : Extract(text, response)
    \/ Restart

SpecExtract == Init /\ [][NextExtract]_vars

(***************************************************************************)
(* The reranker alone.                                                      *)
(***************************************************************************)
NextRerank ==
    \/ \E documents \in CandidateLists, top_k \in TopKs, env \in Envs :
           Rerank(documents, top_k, env)
    \/ \E env \in Envs : IsAvailable(env)
    \/ NewReranker
    \/ Restart

SpecRerank == Init /\ [][NextRerank]_vars

(***************************************************************************)
(* The claims of the specification, each read off the last call (last) or   *)
(* off the state, under the specification named with it.                    *)
(***************************************************************************)
\* top_k of the last call after its default
LastTopK == IF last.top_k = 0 THEN top_k_default ELSE last.top_k

Keys(list) == [i \in 1..Len(list) |-> list[i].key]

\* the permutation of 1..Len(scores) a stable descending sort applies
StableDescending(scores) ==
    CHOOSE p \in [1..Len(scores) -> 1..Len(scores)] :
        /\ \A i, j \in 1..Len(scores) : p[i] = p[j] => i = j
        /\ \A i, j \in 1..Len(scores) :
               i < j => \/ FracLess(scores[p[j]], scores[p[i]])
                        \/ (FracEq(scores[p[i]], scores[p[j]]) /\ p[i] < p[j])

\* C1 (SpecRetrieve): for every non-empty candidate map, _rrf_fusion returns
\* all the candidates with rrf_score non-increasing from first to last, and
\* retrieve without reranking returns its results in that same order, cut to
\* top_k.
C1_FusionSortedByScore ==
    (last.op = "retrieve" /\ last.value.all_results # <<>>) =>
        LET candidates == last.value.all_results
            fused == last.value.fused_results
            results == last.value.results
        IN  /\ Len(fused) = Len(candidates)
            /\ Range(Keys(fused)) = Range(Keys(candidates))
            /\ \A i \in 1..(Len(fused) - 1) :
                   ~FracLess(fused[i].rrf_score, fused[i + 1].rrf_score)
            /\ ~last.value.reranked =>
                   /\ last.ok
                   /\ Len(results) = Min(LastTopK, Len(fused))
                   /\ \A i \in 1..Len(results) :
                          /\ results[i].text = fused[i].text
                          /\ results[i].score = fused[i].rrf_score
                          /\ results[i].sources = fused[i].sources

\* a retrieve without reranking whose fusion moved a candidate found by two
\* sources ahead of the candidate merged first
C1_Witness ==
    /\ last.op = "retrieve"
    /\ ~last.value.reranked
    /\ Len(last.value.results) >= 2
    /\ Keys(last.value.fused_results) # Keys(last.value.all_results)
    /\ FracLess(last.value.fused_results[2].rrf_score,
                last.value.fused_results[1].rrf_score)

\* the hit of a source that gave the candidate its rank
RankedHit(value, source, rank) ==
    CASE source = "vector" -> MergeKey(value.vector_hits[rank].text)
      [] source = "bm25" -> MergeKey(value.bm25_hits[rank].text)
      [] source = "graph" -> MergeKey(value.graph_hits[rank].context_text)

HitCount(value, source) ==
    CASE source = "vector" -> Len(value.vector_hits)
      [] source = "bm25" -> Len(value.bm25_hits)
      [] source = "graph" -> Len(value.graph_hits)

\* C2 (SpecRetrieve): the rrf_score of a candidate is the sum of
\* 1/(rrf_k + rank) over its contributing sources, rank being the place of
\* the candidate in the hits of that source; with two or more sources it is
\* strictly greater than the score any one of them alone would give.
C2_ScoreIsSumOverSources ==
    last.op = "retrieve" =>
        \A i \in 1..Len(last.value.fused_results) :
            LET c == last.value.fused_results[i]
                den == c.rrf_score.den
                contributing == Range(c.sources)
                Term(source) == den \div (rrf_k + c.ranks[source])
            IN  /\ contributing # {}
                /\ DOMAIN c.ranks = contributing
                /\ \A source \in contributing :
                       /\ c.ranks[source] \in 1..HitCount(last.value, source)
                       /\ RankedHit(last.value, source, c.ranks[source]) = c.key
                       /\ den % (rrf_k + c.ranks[source]) = 0
                /\ c.rrf_score.num = SetSum(contributing, Term)
                /\ Cardinality(contributing) >= 2 =>
                       \A source \in contributing :
                           FracLess(Frac(1, rrf_k + c.ranks[source]), c.rrf_score)

\* a candidate found by the vector search and by the BM25 search at
\* different ranks
C2_Witness ==
    /\ last.op = "retrieve"
    /\ \E i \in 1..Len(last.value.fused_results) :
           LET c == last.value.fused_results[i]
           IN  /\ {"vector", "bm25"} \subseteq Range(c.sources)
               /\ c.ranks["vector"] # c.ranks["bm25"]

\* the entity a graph hit was made from lists the document
GraphHitOf(graph, notebook_id, hit, document_id) ==
    \E i \in 1..Len(graph.entities) :
        /\ graph.entities[i].notebook_id = notebook_id
        /\ graph.entities[i].name = hit.entity_name
        /\ document_id \in Range(graph.entities[i].document_ids)

\* the searches of the three indexes on a notebook return no candidate of
\* the document, whichever query of the model is asked
NoCandidateOf(notebook_id, document_id) ==
    \A query \in RetrieveQueries :
        LET k == 2 * top_k_default
            vector_hits == vector_search(vs, notebook_id, query, k, TRUE, TRUE).hits
            bm25_hits == bm25_search(bs, notebook_id, query, k, TRUE).hits
            graph_hits == graph_search(connected, up, db, notebook_id, query, k).hits
        IN  /\ \A i \in 1..Len(vector_hits) :
                   vector_hits[i].metadata.document_id # document_id
            /\ \A i \in 1..Len(bm25_hits) :
                   bm25_hits[i].metadata.document_id # document_id
            /\ \A i \in 1..Len(graph_hits) :
                   ~GraphHitOf(db, notebook_id, graph_hits[i], document_id)

\* C3 (Spec): after RAGService.delete_document(notebook, doc) has completed,
\* whatever was ingested and deleted before, every later vector query, BM25
\* search and graph search on the notebook returns no candidate that refers
\* to doc (deleted holds the pairs delete_document returned for, nothing of
\* the document having been stored since).
C3_DeletedDocumentNotReturned ==
    \A pair \in deleted : NoCandidateOf(pair[1], pair[2])

\* the data is gone from one index and still present in another
PartlyDeleted(before, after) ==
    \E gone, kept \in {"vector", "bm25", "graph"} :
        before[gone] /\ ~after[gone] /\ after[kept]

\* C4 (Spec): delete_document and delete_notebook remove the data from the
\* vector, BM25 and graph indexes atomically: no call, one that raises in a
\* per-index step included, ends with the data of the document (or of a
\* document of the notebook) gone from one index and still present in
\* another.
C4_DeleteIsAtomic ==
    /\ last.op = "delete_document" => ~PartlyDeleted(last.before, last.after)
    /\ last.op = "delete_notebook" =>
           \A d \in DocumentIds : ~PartlyDeleted(last.before[d], last.after[d])

\* the notebook a document was uploaded to
NotebookOf(document_id) ==
    (CHOOSE document \in Documents : document.id = document_id).notebook_id

\* the collection a store keeps for a notebook, if it keeps one
CollectionOf(store, name) ==
    IF name \in DOMAIN store.collections THEN <<store.collections[name]>> ELSE <<>>

\* C5 (Spec): collections are namespaced per notebook: a vector query or a
\* BM25 search on a notebook never returns a chunk that was ingested under
\* another notebook, and delete_notebook(A) leaves the vector and BM25 data
\* of every other notebook B unchanged.
C5_NotebooksAreSeparate ==
    /\ [](\A notebook_id \in NotebookIds, query \in RetrieveQueries :
             LET k == 2 * top_k_default
                 vector_hits == vector_search(vs, notebook_id, query, k, TRUE, TRUE).hits
                 bm25_hits == bm25_search(bs, notebook_id, query, k, TRUE).hits
             IN  /\ \A i \in 1..Len(vector_hits) :
                        NotebookOf(vector_hits[i].metadata.document_id) = notebook_id
                 /\ \A i \in 1..Len(bm25_hits) :
                        NotebookOf(bm25_hits[i].metadata.document_id) = notebook_id)
    /\ [][\A A \in NotebookIds :
             (last'.op = "delete_notebook" /\ last'.notebook_id = A) =>
                 \A B \in NotebookIds \ {A} :
                     /\ CollectionOf(vs', VS_get_collection_name(B))
                            = CollectionOf(vs, VS_get_collection_name(B))
                     /\ CollectionOf(bs', BM_get_collection_name(B))
                            = CollectionOf(bs, BM_get_collection_name(B))]_vars

\* the graph store is unavailable: it is not connected, or the engine cannot
\* be reached
GraphUnavailable == ~connected \/ ~up

\* C6 (SpecRetrieve): with the graph store unavailable, retrieve with
\* use_graph = True returns exactly the result list (texts, order, scores,
\* sources, empty entities) that retrieve with use_graph = False returns on
\* the same index state.
C6_GraphUnavailableAsWithoutGraph ==
    [][(last'.op = "retrieve" /\ last'.flags.use_graph /\ GraphUnavailable) =>
          /\ last'.ok
          /\ last'.value.results =
                 retrieve(RetrieverState, last'.notebook_id, last'.query, last'.top_k,
                          last'.flags.use_vector, last'.flags.use_bm25, FALSE,
                          last'.flags.use_reranker, last'.env).results
          /\ \A i \in 1..Len(last'.value.results) :
                 last'.value.results[i].entities = <<>>]_vars

\* retrieve with use_graph = True has returned results while the store was
\* not connected, the engine being reachable and holding entities of the
\* notebook
C6_Witness ==
    /\ last.op = "retrieve"
    /\ last.flags.use_graph
    /\ ~connected
    /\ up
    /\ \E i \in 1..Len(db.entities) : db.entities[i].notebook_id = last.notebook_id
    /\ last.value.results # <<>>

\* the methods of GraphStore that read or write the graph
GraphMethods ==
    {"add_entities", "search_by_entities", "search_by_query", "get_entity_context",
     "delete_document", "delete_notebook"}

\* C7 (SpecGraph): if the graph engine cannot be reached when GraphStore is
\* constructed, construction does not raise, is_connected is false and stays
\* false for the life of the store, and add_entities, search_by_entities,
\* search_by_query, get_entity_context, delete_document and delete_notebook
\* each return nothing (or an empty result) without contacting the engine and
\* leave the graph as it is.
C7_UnreachableStoreIsInert ==
    /\ [](probeFailed => ~connected)
    /\ [][(last'.op = "restart" /\ ~up) => probeFailed']_vars
    /\ [][(probeFailed /\ last'.op = "graph_store" /\ last'.method \in GraphMethods) =>
             /\ probeFailed'
             /\ ~connected'
             /\ last'.ok
             /\ last'.value = <<>>
             /\ ~last'.contacted
             /\ db' = db]_vars

\* a search on a store built while the engine was unreachable, the engine
\* being reachable again and holding entities of the notebook
C7_Witness ==
    /\ probeFailed
    /\ up
    /\ last.op = "graph_store"
    /\ last.method = "search_by_query"
    /\ \E i \in 1..Len(db.entities) : db.entities[i].notebook_id = last.notebook_id

\* C8 (SpecRerank): when the reranker is unavailable, or model.predict
\* raises, rerank never raises and returns the candidates sorted by their
\* fusion score in descending order, ties keeping the input order, cut to k,
\* with rerank_score equal to that fusion score.
C8_FallbackSortsByFusionScore ==
    (last.op = "rerank" /\ (reranker # "True" \/ ~last.env.predict.ok)) =>
        LET documents == last.documents
            order == StableDescending([i \in 1..Len(documents) |-> documents[i].score])
        IN  /\ last.ok
            /\ Len(last.value) = Min(last.top_k, Len(documents))
            /\ \A i \in 1..Len(last.value) :
                   /\ last.value[i].text = documents[order[i]].text
                   /\ last.value[i].metadata = documents[order[i]].metadata
                   /\ last.value[i].source = documents[order[i]].source
                   /\ last.value[i].original_score = documents[order[i]].score
                   /\ last.value[i].rerank_score = documents[order[i]].score

\* rerank on an unavailable reranker with more candidates than k, two of
\* them with equal scores and the best one last
C8_Witness ==
    /\ last.op = "rerank"
    /\ reranker = "False"
    /\ Len(last.documents) > last.top_k
    /\ last.top_k >= 2
    /\ \E i, j \in 1..Len(last.documents) :
           i # j /\ last.documents[i].score = last.documents[j].score
    /\ last.value[1] # FallbackResults(last.documents)[1]

\* C9 (SpecQuery): if the call of the Embedding Provider fails during a
\* query, the failure reaches the caller of RAGService.query as a query
\* failure and no answer is returned, in hybrid and in simple mode.
C9_EmbeddingFailurePropagates ==
    (last.op = "query" /\ ~last.env.encode_ok) => ~last.ok

\* C10 (SpecRetrieve): an exception raised by the BM25 search, by the graph
\* search or by the scoring of the reranker never leaves retrieve: the source
\* that failed contributes no candidate, the reranker falls back to the order
\* of the fusion scores, and retrieve returns what it returns with the
\* failed parts switched off.
C10_SourceFailuresContained ==
    [][last'.op = "retrieve" =>
          LET value == last'.value
              flags == last'.flags
          IN  /\ last'.ok
              /\ value.bm25_raised => value.bm25_hits = <<>>
              /\ value.graph_raised => value.graph_hits = <<>>
              /\ (value.bm25_raised \/ value.graph_raised \/ value.predict_raised) =>
                     value.results =
                         retrieve(RetrieverState, last'.notebook_id, last'.query,
                                  last'.top_k, flags.use_vector,
                                  flags.use_bm25 /\ ~value.bm25_raised,
                                  flags.use_graph /\ ~value.graph_raised,
                                  flags.use_reranker /\ ~value.predict_raised,
                                  last'.env).results]_vars

\* the BM25 search, the graph search and model.predict all raised in one
\* retrieve, which returned what the vector search found
C10_Witness ==
    /\ last.op = "retrieve"
    /\ last.value.bm25_raised
    /\ last.value.graph_raised
    /\ last.value.predict_raised
    /\ last.value.vector_hits # <<>>
    /\ last.value.results # <<>>

\* the last call failed on a statement sent to the graph engine
FailedOnGraph ==
    \/ last.op \in {"delete_document", "get_stats"} /\ last.raised = "graph"
    \/ last.op = "query" /\ ~last.ok /\ last.value = "graph"

\* C11 (Spec): if the graph engine becomes unreachable after a successful
\* startup probe (the store is connected, the engine is down), the callers
\* still never fail because of it: RAGService.query, delete_document and
\* get_stats complete without raising.
C11_GraphDownNeverFailsCallers ==
    (connected /\ ~up) => ~FailedOnGraph

\* the retrieval of a query call, made in the state before it, returned and
\* yielded no results: retrieve in hybrid mode, the vector query in simple mode
RetrievalEmpty(call) ==
    LET k == IF call.top_k = 0 THEN top_k_default ELSE call.top_k
    IN  IF call.use_hybrid /\ settings_use_hybrid_rag
        THEN LET r == retrieve(RetrieverState, call.notebook_id, call.query, k, TRUE,
                               settings_use_bm25_search, settings_use_graph_search,
                               settings_use_reranker, call.env)
             IN  r.ok /\ r.results = <<>>
        ELSE /\ call.env.encode_ok
             /\ (VS_get_collection_name(call.notebook_id) \in DOMAIN vs.collections
                    \/ call.env.disk_ok)
             /\ VS_query_result(VS_get_or_create_collection(vs, call.notebook_id),
                                call.notebook_id, encode_single(call.query), k).documents
                    = <<>>

\* C12 (SpecQuery): when retrieval yields no results, RAGService.query does
\* not fail and does not call the chat model: it returns the designated "no
\* relevant documents" answer with an empty list of sources.
C12_NoResultsAnswer ==
    [][(last'.op = "query" /\ RetrievalEmpty(last')) =>
          /\ last'.ok
          /\ ~last'.generated
          /\ last'.value.answer = NoDocuments
          /\ last'.value.sources = <<>>]_vars

\* a hybrid query on a notebook without documents got the "no relevant
\* documents" answer, the chat model being down
C12_Witness ==
    /\ last.op = "query"
    /\ last.use_hybrid
    /\ ~last.llm_ok
    /\ ~last.generated
    /\ last.ok
    /\ last.value.answer = NoDocuments

\* the first 100 characters of a text, lower-cased and trimmed
HitKey(text) == Strip(Lower(SubSeq(text, 1, Min(Len(text), KeyPrefixLen))))

\* the hits of a source that go into the merge, as <<text, rank, score>>
MergedHits(value, source) ==
    CASE source = "vector" ->
             {<<value.vector_hits[i].text, i, value.vector_hits[i].score>>
              : i \in 1..Len(value.vector_hits)}
      [] source = "bm25" ->
             {<<value.bm25_hits[i].text, i, value.bm25_hits[i].score>>
              : i \in 1..Len(value.bm25_hits)}
      [] source = "graph" ->
             {<<value.graph_hits[i].context_text, i, value.graph_hits[i].relevance_score>>
              : i \in {j \in 1..Len(value.graph_hits) :
                          value.graph_hits[j].context_text # <<>>}}

\* C13 (SpecRetrieve): merging keys every hit by its first 100 characters,
\* lower-cased and trimmed: every hit with a text is in the one candidate of
\* its key, a candidate holds for each of its sources the rank and the score
\* of a hit of that source with its key, and no two candidates and no two
\* results returned by retrieve share a key.
C13_OneCandidatePerKey ==
    last.op = "retrieve" =>
        LET value == last.value
            candidates == value.all_results
            results == value.results
        IN  /\ \A i, j \in 1..Len(candidates) :
                   HitKey(candidates[i].text) = HitKey(candidates[j].text) => i = j
            /\ \A i, j \in 1..Len(results) :
                   HitKey(results[i].text) = HitKey(results[j].text) => i = j
            /\ \A source \in {"vector", "bm25", "graph"} :
                   \A hit \in MergedHits(value, source) :
                       \E i \in 1..Len(candidates) :
                           /\ HitKey(candidates[i].text) = HitKey(hit[1])
                           /\ source \in Range(candidates[i].sources)
            /\ \A i \in 1..Len(candidates) :
                   \A source \in Range(candidates[i].sources) :
                       \E hit \in MergedHits(value, source) :
                           /\ HitKey(hit[1]) = HitKey(candidates[i].text)
                           /\ candidates[i].ranks[source] = hit[2]
                           /\ candidates[i].scores[source] = hit[3]

\* retrieve returned one result for a vector hit and a BM25 hit whose texts,
\* longer than 100 characters, differ and have the same key
C13_Witness ==
    /\ last.op = "retrieve"
    /\ last.ok
    /\ \E i \in 1..Len(last.value.vector_hits), j \in 1..Len(last.value.bm25_hits) :
           LET a == last.value.vector_hits[i].text
               b == last.value.bm25_hits[j].text
           IN  /\ a # b
               /\ Len(a) > KeyPrefixLen
               /\ Len(b) > KeyPrefixLen
               /\ HitKey(a) = HitKey(b)
               /\ \E r \in 1..Len(last.value.results) :
                      /\ HitKey(last.value.results[r].text) = HitKey(a)
                      /\ {"vector", "bm25"} \subseteq Range(last.value.results[r].sources)

\* C14 (SpecRetrieve): when reranking is disabled or the reranker is
\* unavailable, retrieve returns exactly the first min(k, n) candidates of
\* the fused order, each with its RRF score as score; on every path retrieve
\* returns at most k results.
C14_TruncatedToK ==
    last.op = "retrieve" =>
        LET fused == last.value.fused_results
            results == last.value.results
        IN  /\ Len(results) <= LastTopK
            /\ (~last.flags.use_reranker \/ reranker # "True") =>
                   /\ last.ok
                   /\ ~last.value.reranked
                   /\ Len(results) = Min(LastTopK, Len(fused))
                   /\ \A i \in 1..Len(results) :
                          /\ results[i].text = fused[i].text
                          /\ results[i].metadata = fused[i].metadata
                          /\ results[i].sources = fused[i].sources
                          /\ results[i].score = RRFSum(fused[i].ranks)

\* retrieve asked to rerank, the reranker model not loadable, with more fused
\* candidates than k
C14_Witness ==
    /\ last.op = "retrieve"
    /\ last.flags.use_reranker
    /\ reranker = "False"
    /\ Len(last.value.fused_results) > LastTopK
    /\ Len(last.value.results) = LastTopK

\* the candidate a result was made from
CandidateOf(value, result) ==
    CHOOSE c \in Range(value.fused_results) : HitKey(c.text) = HitKey(result.text)

\* C15 (SpecRetrieve): in every result of retrieve, entities is the list of
\* related entities carried by the candidate of that result when its sources
\* include graph, and is empty when they do not.
C15_EntitiesOfOwnCandidate ==
    last.op = "retrieve" =>
        \A i \in 1..Len(last.value.results) :
            LET result == last.value.results[i]
            IN  IF "graph" \in Range(result.sources)
                THEN Range(result.entities) = CandidateOf(last.value, result).entities
                ELSE result.entities = <<>>

\* two embeddings of the same direction, neither the zero vector
Parallel(u, v) ==
    /\ u[1] * v[2] = u[2] * v[1]
    /\ u[1] * v[1] + u[2] * v[2] > 0

\* the query with the embedding of the stored chunk i of collection name
\* returns the stored chunk first, at distance 0
QueryReturnsFirst(name, i, first, top_k) ==
    LET c == vs.collections[name]
        r == VS_query_result(vs, c.notebook_id, c.embeddings[i], top_k)
    IN  /\ r.documents # <<>>
        /\ r.documents[1] = c.documents[first]
        /\ r.metadatas[1] = c.metadatas[first]
        /\ r.distances[1].num = 0

C17_SearchTopPositive ==
    (last.op = "bm25_search" /\ last.ok) =>
        /\ Len(last.value) <= last.top_k
        /\ \A i \in 1..Len(last.value) : last.value[i].score > 0
        /\ \A i \in 1..(Len(last.value) - 1) :
               last.value[i].score >= last.value[i + 1].score
        /\ BM_tokenize(last.query) = <<>> => last.value = <<>>

\* a search over three chunks that returned fewer results than k, because a
\* chunk among the top k had no positive score
C17_Witness ==
    /\ last.op = "bm25_search"
    /\ last.ok
    /\ last.top_k = MaxTopK
    /\ Len(last.value) = 1
    /\ Len(bs.collections[BM_get_collection_name(last.notebook_id)].documents) >= 3

\* the tokens of the chunk texts
BMTokens == UNION {Range(BM_tokenize(text)) : text \in BMTexts}

\* C18 (SpecBM25): in the index of a collection, for every query token longer
\* than one character, a document that holds the token scores strictly
\* greater than a document that does not hold it.
C18_HolderScoresHigher ==
    \A name \in DOMAIN bs.indexes :
        LET corpus == bs.indexes[name].corpus
        IN  \A token \in BMTokens, i \in 1..Len(corpus), j \in 1..Len(corpus) :
                (token \in Range(corpus[i]) /\ token \notin Range(corpus[j])) =>
                    BM25_score(corpus, <<token>>, i) > BM25_score(corpus, <<token>>, j)

\* the index self._bm25_indexes holds for a collection name
IndexOf(name) == IF name \in DOMAIN bs.indexes THEN bs.indexes[name] ELSE NoIndex

\* C19 (SpecBM25): the index of every collection is built from exactly the
\* current tokenized documents of the collection, which are the tokens of
\* its current documents; an empty collection and a deleted collection have
\* no index.
C19_IndexOfCurrentDocuments ==
    /\ \A name \in DOMAIN bs.collections :
           LET c == bs.collections[name]
           IN  /\ c.tokenized_docs =
                      [i \in 1..Len(c.documents) |-> BM_tokenize(c.documents[i])]
               /\ IF c.documents = <<>> THEN IndexOf(name).none
                  ELSE /\ ~IndexOf(name).none
                       /\ IndexOf(name).corpus = c.tokenized_docs
    /\ \A name \in DOMAIN bs.indexes :
           name \notin DOMAIN bs.collections => bs.indexes[name].none

\* a search has scored against an index built from other documents than the
\* collection holds, and returned a chunk for it or raised
C19_StaleSearch ==
    /\ last.op = "bm25_search"
    /\ (~last.ok \/ last.value # <<>>)
    /\ LET name == BM_get_collection_name(last.notebook_id)
       IN  IndexOf(name).corpus # bs.collections[name].tokenized_docs

\* the answer could not be parsed: no JSON block, invalid JSON, or an entity
\* or relation item of the wrong shape (no object, or an object without a
\* string name, or without string source and target)
WrongShape(items, keys) ==
    \E i \in 1..Len(items) :
        items[i].t # "dict" \/ \E k \in keys : items[i][k].t # "str"
ParseFailure(content) ==
    \/ content.json \in {"none", "invalid"}
    \/ WrongShape(content.entities.items, {"name"})
    \/ WrongShape(content.relations.items, {"source", "target"})

\* C20 (SpecExtract): extract never raises, and when the answer of the chat
\* model could not be parsed it returns no entities and no relations.
C20_EmptyOnParseFailure ==
    last.op = "extract" =>
        /\ last.ok
        /\ (last.called /\ last.response.http = "ok"
                /\ ParseFailure(last.response.content)) =>
               last.value = NoExtraction

\* extract never raises
C20_NeverRaises == last.op = "extract" => last.ok

\* an answer that is no JSON has been given and extract returned nothing
C20_NoJsonEmpty ==
    /\ last.op = "extract"
    /\ last.called
    /\ last.response.http = "ok"
    /\ last.response.content.json = "invalid"
    /\ last.value = NoExtraction

\* C21 (Spec): in the graph an entity is identified by its case-insensitive
\* name within a notebook: no two entity nodes of a notebook have names that
\* differ only in case.
C21_EntityPerNameNoCase ==
    \A i \in 1..Len(db.entities), j \in 1..Len(db.entities) :
        (/\ db.entities[i].notebook_id = db.entities[j].notebook_id
         /\ Lower(db.entities[i].name) = Lower(db.entities[j].name)) => i = j

\* the graph lists the document in the notebook: an entity, a relation or a
\* chunk of the notebook has it among its source documents
GraphLists(graph, notebook_id, document_id) ==
    \/ \E i \in 1..Len(graph.entities) :
           /\ graph.entities[i].notebook_id = notebook_id
           /\ document_id \in Range(graph.entities[i].document_ids)
    \/ \E i \in 1..Len(graph.relations) :
           /\ graph.relations[i].notebook_id = notebook_id
           /\ document_id \in Range(graph.relations[i].document_ids)
    \/ \E i \in 1..Len(graph.chunks) :
           /\ graph.chunks[i].notebook_id = notebook_id
           /\ graph.chunks[i].document_id = document_id

\* C27 (SpecNotebookGraph): after GraphStore.delete_document(notebook, doc)
\* has run on the engine, no entity, relation or chunk of the notebook lists
\* doc among its source documents.
C27_DeletedDocumentNotListed ==
    [][(/\ last'.op = "graph_store"
        /\ last'.method = "delete_document"
        /\ last'.ok /\ last'.contacted)
       => \E document_id \in DocumentIds :
              /\ db' = GS_delete_document(connected, up, db, last'.notebook_id,
                                          document_id).db
              /\ ~GraphLists(db', last'.notebook_id, document_id)]_vars

\* C23 (SpecRerank): when the cross-encoder has scored the batch, the
\* rerank_score of a result is the raw score of its document if all raw
\* scores of the batch are equal, and otherwise its min-max normalized
\* score, which lies in [0, 1].
C23_NormalizedUnlessAllEqual ==
    (/\ last.op = "rerank"
     /\ last.documents # <<>>
     /\ reranker = "True"
     /\ settings_use_reranker
     /\ last.env.predict.ok) =>
        LET documents == last.documents
            raw == Take(last.env.predict.scores, Len(documents))
            lo == MinOf(raw)
            hi == MaxOf(raw)
            Expected(i) == IF lo = hi THEN Frac(raw[i], 1)
                           ELSE Frac(raw[i] - lo, hi - lo)
        IN  \A r \in 1..Len(last.value) :
                /\ \E i \in 1..Len(documents) :
                       /\ last.value[r].text = documents[i].text
                       /\ FracEq(last.value[r].rerank_score, Expected(i))
                /\ lo # hi =>
                       /\ ~FracLess(last.value[r].rerank_score, Frac(0, 1))
                       /\ ~FracLess(Frac(1, 1), last.value[r].rerank_score)

\* C25 (SpecRerank): the load of the cross-encoder is attempted only while
\* no attempt has been made in the process, and an attempt leaves its
\* outcome behind, so there is at most one attempt per process, over all
\* calls and all Reranker instances; after a failed load every call leaves
\* the failure standing, is_available answers no and rerank returns the
\* fallback without raising.
C25_LoadAttemptedOnce ==
    [][/\ (last'.op \in {"rerank", "is_available"} /\ last'.attempted) =>
              (model = "None" /\ model' # "None")
       /\ (last'.op \in {"rerank", "is_available"} /\ ~last'.attempted) =>
              model' = model
       /\ (model # "None" /\ last'.op # "restart") => model' = model
       /\ (model = "False" /\ last'.op = "is_available") =>
              (last'.ok /\ ~last'.value)
       /\ (model = "False" /\ last'.op = "rerank") =>
              /\ last'.ok
              /\ last'.value = RerankFallback(last'.documents, last'.top_k)]_vars

\* rerank on another Reranker instance after a failed load, while the
\* cross-encoder could be loaded now: no attempt, the fallback is returned
C25_Witness ==
    /\ last.op = "rerank"
    /\ last.documents # <<>>
    /\ model = "False"
    /\ reranker = "False"
    /\ last.env.loadable
    /\ last.env.predict.ok
    /\ ~last.attempted
    /\ last.value = RerankFallback(last.documents, last.top_k)

\* C30 (SpecVector): VectorStore.query leaves the store as it was: it
\* creates, changes and persists no collection.
C30_QueryLeavesStore ==
    [][last'.op = "vector_query" => vs' = vs]_vars

\* the number of chunks of the document in the collection of the notebook
ChunkCount(store, name, document_id) ==
    IF name \notin DOMAIN store.collections THEN 0
    ELSE Cardinality({i \in 1..Len(store.collections[name].metadatas) :
                         store.collections[name].metadatas[i].document_id = document_id})

\* C24 (Spec): when process_document has reached the extraction of entities,
\* it returns the chunk count whatever the extractor returns and whether or
\* not the graph write raises, and leaves the vector and BM25 collections
\* as they are, the chunks it stored included.
C24_ExtractionNeverAbortsIngestion ==
    [][(task.pc = "extract" /\ last'.op = "process_document") =>
          /\ last'.ok
          /\ last'.document_id = task.document_id
          /\ task'.pc = "idle" => last'.value = Len(task.texts)
          /\ vs' = vs
          /\ bs' = bs]_vars

\* process_document has returned the chunk count after the graph write
\* raised, and the chunks are in the vector and the BM25 collection
C24_Witness ==
    /\ last.op = "process_document"
    /\ last.ok
    /\ task.pc = "idle"
    /\ last.value >= 1
    /\ connected
    /\ ~up
    /\ db = EmptyGraph
    /\ ChunkCount(vs, VS_get_collection_name(last.notebook_id), last.document_id)
           = last.value
    /\ ChunkCount(bs, BM_get_collection_name(last.notebook_id), last.document_id)
           = last.value

\* no element of the list repeats
NoRepeat(list) == \A i, j \in 1..Len(list) : list[i] = list[j] => i = j

\* C26 (SpecRetrieve): in every candidate and every result of retrieve,
\* sources names each of vector, bm25 and graph at most once, and the
\* candidate holds one rank for each of its sources.
C26_SourcesAreASet ==
    last.op = "retrieve" =>
        /\ \A i \in 1..Len(last.value.all_results) :
               LET candidate == last.value.all_results[i]
               IN  /\ NoRepeat(candidate.sources)
                   /\ DOMAIN candidate.ranks = Range(candidate.sources)
        /\ \A i \in 1..Len(last.value.results) :
               NoRepeat(last.value.results[i].sources)

\* C29 (SpecDocuments): when upload_document stores the Document record,
\* process_document has run to its end, the chunks of the document are in the
\* vector index, and the recorded chunk_count is that number of chunks, an
\* integer.
C29_RecordAfterIngestion ==
    [][\A document_id \in DocumentIds :
          (/\ last'.op = "upload_document"
           /\ document_id \in DOMAIN notebook_store'.documents
           /\ document_id \notin DOMAIN notebook_store.documents)
          => LET document == notebook_store'.documents[document_id]
                 name == VS_get_collection_name(document.notebook_id)
             IN  /\ last'.processed
                 /\ document.chunk_count.type = "int"
                 /\ document.chunk_count.n = ChunkCount(vs', name, document_id)]_vars

\* the step leaves in the vector collection name what the mutations that have
\* run stored there: the number of chunks of document_id changes only by an
\* ingestion of that document, which adds chunks, by a delete of it or by a
\* delete of a notebook of that collection, which leave none
UpdateKept(name, document_id) ==
    LET before == ChunkCount(vs, name, document_id)
        after == ChunkCount(vs', name, document_id)
    IN  after # before =>
            \/ /\ last'.op = "process_document"
               /\ last'.document_id = document_id
               /\ after > before
            \/ /\ last'.op = "delete_document"
               /\ last'.document_id = document_id
               /\ after = 0
            \/ /\ last'.op = "delete_notebook"
               /\ VS_get_collection_name(last'.notebook_id) = name
               /\ after = 0

\* the step leaves no update of a vector collection lost: every document keeps
\* its chunks unless the step is a mutation that names it, a delete leaves no
\* chunk of its document, an ingestion that is suspended has its chunks
\* stored, and the file of each collection holds what the memory holds
NoUpdateLost ==
    /\ \A notebook_id \in NotebookIds, document_id \in DocumentIds :
           UpdateKept(VS_get_collection_name(notebook_id), document_id)
    /\ last'.op = "delete_document" =>
           ChunkCount(vs', VS_get_collection_name(last'.notebook_id),
                      last'.document_id) = 0
    /\ (task = Idle /\ task'.pc = "extract") =>
           ChunkCount(vs', VS_get_collection_name(task'.notebook_id),
                      task'.document_id) = Len(task'.texts)
    /\ \A name \in DOMAIN vs'.collections :
           name \in DOMAIN vs'.files /\ vs'.files[name] = vs'.collections[name]

\* an ingestion is suspended at its await and the vector collection it wrote
\* to holds chunks of another document: a delete on the same collection can
\* run before the ingestion completes
MutationsOverlap ==
    /\ task.pc = "extract"
    /\ \E document \in Documents :
           /\ document.id # task.document_id
           /\ VS_get_collection_name(document.notebook_id)
                  = VS_get_collection_name(task.notebook_id)
           /\ ChunkCount(vs, VS_get_collection_name(task.notebook_id), document.id) >= 1

\* C22 (Spec), as amended: a mutation can run on a collection while an
\* ingestion on the same collection is suspended, but no step of the service
\* loses an update of a vector collection.
C22_NoUpdateLost == [][NoUpdateLost]_vars

\* C22 (Spec), as stated: where two mutations on the same collection overlap,
\* an update can be lost: a step is possible after which the stored
\* collection lacks the effect of one of them.
C22_UpdateCanBeLost == MutationsOverlap => ENABLED (Next /\ ~NoUpdateLost)

\* a delete of another document has run on the collection of an ingestion
\* that is suspended, and the collection and its file hold the chunks of the
\* ingestion and none of the deleted document
C22_Witness ==
    /\ task.pc = "extract"
    /\ last.op = "delete_document"
    /\ last.ok
    /\ last.document_id # task.document_id
    /\ LET name == VS_get_collection_name(task.notebook_id)
       IN  /\ VS_get_collection_name(last.notebook_id) = name
           /\ last.before.vector
           /\ ChunkCount(vs, name, last.document_id) = 0
           /\ ChunkCount(vs, name, task.document_id) = Len(task.texts)
           /\ vs.files[name] = vs.collections[name]

\* the texts of a list of hits
HitTexts(hits) == [i \in 1..Len(hits) |-> hits[i].text]

\* the merge keys of the texts of a list
KeysOf(texts) == {MergeKey(texts[i]) : i \in 1..Len(texts)}

\* the retrieve call that has just ended searched the vector collection, the
\* BM25 collection and the graph in the one state the call started in, and
\* fused the hits of all three: the vector hits are the answer of the vector
\* store of that state, the BM25 hits the answer of its BM25 store, the graph
\* hits the answer of its graph, and the fused candidates are the keys of
\* the three lists together
SearchedOneState ==
    LET value == last'.value
        top_k == last'.top_k
        vector == VS_query_result(VS_get_or_create_collection(vs, nbA), nbA,
                                  encode_single(last'.query), top_k * 2)
        bm25 == BM_search_result(BM_get_or_create_collection(bs, nbA), nbA,
                                 last'.query, top_k * 2)
        graph == graph_search(connected, up, db, nbA, last'.query, top_k)
        context == [i \in 1..Len(value.graph_hits) |-> value.graph_hits[i].context_text]
    IN  /\ ~value.vector_raised => HitTexts(value.vector_hits) = vector.documents
        /\ ~value.bm25_raised => HitTexts(value.bm25_hits) = HitTexts(bm25.results)
        /\ value.graph_hits = IF connected THEN graph.hits ELSE <<>>
        /\ KeysOf(HitTexts(value.fused_results))
              = (KeysOf(HitTexts(value.vector_hits)) \cup KeysOf(HitTexts(value.bm25_hits))
                 \cup KeysOf(context)) \ {MergeKey(<<>>)}
        /\ Len(value.fused_results) = Len(value.all_results)

\* C28 (SpecServe): whatever ingestions and deletes run before and after it,
\* a retrieve call fuses the results of its sources after all of them have
\* finished, and all of them searched the index in one state: no ingestion
\* or delete runs between the vector, the BM25 and the graph query.
C28_OneIndexState ==
    [][last'.op = "retrieve" => SearchedOneState]_vars

\* a retrieve call has ended while an ingestion was suspended, after a
\* delete, with hits of the vector and of the BM25 search
C28_Witness ==
    /\ last.op = "retrieve"
    /\ task.pc = "extract"
    /\ deleted # {}
    /\ last.value.vector_hits # <<>>
    /\ last.value.bm25_hits # <<>>
    /\ last.value.fused_results # <<>>

====
